---- MODULE Spec2Model ----
(***************************************************************************)
(* Marching-squares isoline / isoband engine of src/src/isoband.cpp:       *)
(* the extern "C" drivers, isobander / isoliner calculate_contour with the *)
(* case tables, the polygon and line stitchers working on polygon_grid,    *)
(* and the two collectors.                                                 *)
(*                                                                         *)
(* Numbers: grid values and thresholds are integers, a non-finite grid     *)
(* value is a tagged record; the central value and the interpolated        *)
(* coordinates are exact fractions (floating-point rounding is not         *)
(* modelled).                                                              *)
(***************************************************************************)
EXTENDS Integers, Sequences, FiniteSets, TLC

VARIABLES
  todo,              \* polygons calculate_contour has still to merge
  engine,            \* "band": isobander<T>, "line": isoliner<T>
  nrow, ncol,        \* isobander::nrow, ncol
  lenx, leny,        \* lengths handed to the constructor
  grid_x, grid_y,    \* grid_x_p, grid_y_p
  grid_z,            \* grid_z_p, element (r, c) at offset r + c * nrow
  values,            \* values_low / values_high (or values) of the entry point
  n_values,          \* n_bands / n_values
  i_value,           \* loop counter i of the entry point
  vlo, vhi,          \* isobander::vlo, vhi
  polygon_grid,      \* the connectivity map
  tmp_point_connect, \* isobander::tmp_point_connect[8]
  cells,             \* the vector cells of calculate_contour
  n_merged,          \* poly_merge / line_merge calls completed in this calculate_contour
  last_merge,        \* what the latest merge call computed (scores, polygon)
  out,               \* x_out, y_out, id of the running collect (with the vertex emitted)
  cur_id,            \* cur_id of the running collect
  visited,           \* map entries the for loop of the running collect has passed
  returnstructs,     \* results returned so far
  interrupted,       \* isobander::interrupted
  interrupt_pending, \* a user interrupt has been requested (what checkInterrupt() would see)
  error,             \* exception that left the entry point, "none" if none
  pc                 \* control point of the entry point

vars == <<engine, nrow, ncol, lenx, leny, grid_x, grid_y, grid_z, values,
          n_values, i_value, vlo, vhi, polygon_grid, tmp_point_connect, cells,
          todo, n_merged, last_merge, out, cur_id, visited, returnstructs,
          interrupted, interrupt_pending, error, pc>>

-----------------------------------------------------------------------------
(* grid points and connection records *)

point_type == {"grid", "hintersect_lo", "hintersect_hi", "vintersect_lo", "vintersect_hi"}

\* grid_point(): the default-constructed point, "non-existing point off grid"
grid_point == <<-1, -1, "grid">>

\* point_connect(): default-constructed connection
point_connect ==
  [prev |-> grid_point, next |-> grid_point,
   prev2 |-> grid_point, next2 |-> grid_point,
   altpoint |-> FALSE, collected |-> FALSE, collected2 |-> FALSE]

\* C++ bool converted to int
B(b) == IF b THEN 1 ELSE 0

-----------------------------------------------------------------------------
(* numbers *)

NaN == [fin |-> FALSE, v |-> 0]
PInf == [fin |-> FALSE, v |-> 1]
NInf == [fin |-> FALSE, v |-> -1]
Fin(n) == [fin |-> TRUE, v |-> n]

isfinite(z) == z.fin

\* z >= t and z < t for a grid value z and a finite threshold t (IEEE: every
\* comparison with NaN is false)
zge(z, t) == IF z.fin THEN z.v >= t ELSE z.v = 1
zlt(z, t) == IF z.fin THEN z.v < t ELSE z.v = -1

\* fractions [num, den], den > 0
Lt(q, t) == q.num < t * q.den
Ge(q, t) == q.num >= t * q.den

Abs(n) == IF n < 0 THEN -n ELSE n

RECURSIVE Gcd(_, _)
Gcd(a, b) == IF b = 0 THEN a ELSE Gcd(b, a % b)

\* the fraction n / d in lowest terms; d = 0 (a float division by zero)
\* gives the non-finite marker den = 0
Frac(n, d) ==
  IF d = 0 THEN [num |-> 0, den |-> 0]
  ELSE LET g == Gcd(Abs(n), Abs(d))
           s == IF d < 0 THEN -1 ELSE 1
       IN [num |-> s * (n \div g), den |-> s * (d \div g)]

-----------------------------------------------------------------------------
(* cell classification *)

\* Z reading the array by rows: offset c + r * nrow (square grids)
Z_by_rows(z, nr, r, c) == z[c + r * nr]

\* grid_z_p[r + c * nrow]
Z(z, nr, r, c) == z[r + c * nr]

\* central_value as the mean of the two corners of the main diagonal
central_value_of_diagonal(z, nr, r, c) ==
  [num |-> 2 * (Z(z, nr, r, c).v + Z(z, nr, r + 1, c + 1).v), den |-> 4]

\* isobander::central_value: the mean of the four corners, as a fraction
central_value(z, nr, r, c) ==
  [num |-> Z(z, nr, r, c).v + Z(z, nr, r, c + 1).v
           + Z(z, nr, r + 1, c).v + Z(z, nr, r + 1, c + 1).v,
   den |-> 4]

\* ternarized with intervals open below and closed above
ternarized_open_below(zv, lo, hi) == B(~zge(zv, hi) /\ ~zlt(zv, lo) /\ zv.v # lo) + 2 * B(zge(zv, hi) /\ zv.v # hi)

\* one entry of the vector ternarized
ternarized(zv, lo, hi) == B(zge(zv, lo) /\ zlt(zv, hi)) + 2 * B(zge(zv, hi))

\* one entry of the vector binarized
binarized(zv, lo) == B(zge(zv, lo))

\* cell_finite without the test of the corner (r + 1, c + 1)
cell_finite_skips_corner(z, nr, r, c) ==
  /\ isfinite(Z(z, nr, r, c))
  /\ isfinite(Z(z, nr, r, c + 1))
  /\ isfinite(Z(z, nr, r + 1, c))

\* "we don't draw any contours if at least one of the corners is NA"
cell_finite(z, nr, r, c) ==
  /\ isfinite(Z(z, nr, r, c))
  /\ isfinite(Z(z, nr, r, c + 1))
  /\ isfinite(Z(z, nr, r + 1, c))
  /\ isfinite(Z(z, nr, r + 1, c + 1))

\* isoband_index with the weights of the two bottom corners exchanged
isoband_index_swaps_bottom(z, nr, r, c, lo, hi) ==
  IF ~cell_finite(z, nr, r, c) THEN 0
  ELSE 27 * ternarized(Z(z, nr, r, c), lo, hi)
       + 9 * ternarized(Z(z, nr, r, c + 1), lo, hi)
       + 3 * ternarized(Z(z, nr, r + 1, c), lo, hi)
       + ternarized(Z(z, nr, r + 1, c + 1), lo, hi)

\* index of cell (r, c) in isobander::calculate_contour
isoband_index(z, nr, r, c, lo, hi) ==
  IF ~cell_finite(z, nr, r, c) THEN 0
  ELSE 27 * ternarized(Z(z, nr, r, c), lo, hi)
       + 9 * ternarized(Z(z, nr, r, c + 1), lo, hi)
       + 3 * ternarized(Z(z, nr, r + 1, c + 1), lo, hi)
       + ternarized(Z(z, nr, r + 1, c), lo, hi)

\* isoline_index without the exchange of the two-segment saddles
isoline_index_never_swaps(z, nr, r, c, lo) ==
  IF ~cell_finite(z, nr, r, c) THEN 0
  ELSE 8 * binarized(Z(z, nr, r, c), lo)
       + 4 * binarized(Z(z, nr, r, c + 1), lo)
       + 2 * binarized(Z(z, nr, r + 1, c + 1), lo)
       + binarized(Z(z, nr, r + 1, c), lo)

\* isoline_index with the saddles swapped also when the central value
\* equals the threshold
isoline_index_swaps_at_equal(z, nr, r, c, lo) ==
  LET index == IF ~cell_finite(z, nr, r, c) THEN 0
               ELSE 8 * binarized(Z(z, nr, r, c), lo)
                    + 4 * binarized(Z(z, nr, r, c + 1), lo)
                    + 2 * binarized(Z(z, nr, r + 1, c + 1), lo)
                    + binarized(Z(z, nr, r + 1, c), lo)
      vc == central_value(z, nr, r, c)
  IN IF index = 5 /\ vc.num <= lo * vc.den THEN 10
     ELSE IF index = 10 /\ vc.num <= lo * vc.den THEN 5
     ELSE index

\* index of cell (r, c) in isoliner::calculate_contour, two-segment saddles
\* swapped when the central value is below the threshold
isoline_index(z, nr, r, c, lo) ==
  LET index == IF ~cell_finite(z, nr, r, c) THEN 0
               ELSE 8 * binarized(Z(z, nr, r, c), lo)
                    + 4 * binarized(Z(z, nr, r, c + 1), lo)
                    + 2 * binarized(Z(z, nr, r + 1, c + 1), lo)
                    + binarized(Z(z, nr, r + 1, c), lo)
  IN IF index = 5 /\ Lt(central_value(z, nr, r, c), lo) THEN 10
     ELSE IF index = 10 /\ Lt(central_value(z, nr, r, c), lo) THEN 5
     ELSE index

\* the vector cells, cell (r, c) at offset r + c * (nrow - 1); the vector is
\* zero-filled and the loops run only for 0 <= r < nrow-1, 0 <= c < ncol-1
cell_vector(eng, z, nr, nc, lo, hi) ==
  [k \in 0 .. ((nr - 1) * (nc - 1) - 1) |->
     IF nr - 1 > 0 /\ nc - 1 > 0
     THEN LET r == k % (nr - 1)
              c == k \div (nr - 1)
          IN IF eng = "band" THEN isoband_index(z, nr, r, c, lo, hi)
             ELSE isoline_index(z, nr, r, c, lo)
     ELSE 0]

isoband_case(index, r, c, vc, lo, hi) ==
  CASE index = 1 ->
         << << <<r, c, "vintersect_lo">>, <<r + 1, c, "hintersect_lo">>, <<r + 1, c, "grid">> >> >>
    [] index = 3 ->
         << << <<r, c + 1, "vintersect_lo">>, <<r + 1, c + 1, "grid">>, <<r + 1, c, "hintersect_lo">> >> >>
    [] index = 9 ->
         << << <<r, c, "hintersect_lo">>, <<r, c + 1, "grid">>, <<r, c + 1, "vintersect_lo">> >> >>
    [] index = 27 ->
         << << <<r, c, "vintersect_lo">>, <<r, c, "grid">>, <<r, c, "hintersect_lo">> >> >>
    [] index = 79 ->
         << << <<r, c, "vintersect_hi">>, <<r + 1, c, "hintersect_hi">>, <<r + 1, c, "grid">> >> >>
    [] index = 77 ->
         << << <<r, c + 1, "vintersect_hi">>, <<r + 1, c + 1, "grid">>, <<r + 1, c, "hintersect_hi">> >> >>
    [] index = 71 ->
         << << <<r, c, "hintersect_hi">>, <<r, c + 1, "grid">>, <<r, c + 1, "vintersect_hi">> >> >>
    [] index = 53 ->
         << << <<r, c, "vintersect_hi">>, <<r, c, "grid">>, <<r, c, "hintersect_hi">> >> >>
    [] index = 78 ->
         << << <<r, c, "vintersect_hi">>, <<r + 1, c, "hintersect_hi">>, <<r + 1, c, "hintersect_lo">>, <<r, c, "vintersect_lo">> >> >>
    [] index = 74 ->
         << << <<r + 1, c, "hintersect_hi">>, <<r, c + 1, "vintersect_hi">>, <<r, c + 1, "vintersect_lo">>, <<r + 1, c, "hintersect_lo">> >> >>
    [] index = 62 ->
         << << <<r, c + 1, "vintersect_hi">>, <<r, c, "hintersect_hi">>, <<r, c, "hintersect_lo">>, <<r, c + 1, "vintersect_lo">> >> >>
    [] index = 26 ->
         << << <<r, c, "hintersect_hi">>, <<r, c, "vintersect_hi">>, <<r, c, "vintersect_lo">>, <<r, c, "hintersect_lo">> >> >>
    [] index = 2 ->
         << << <<r, c, "vintersect_lo">>, <<r + 1, c, "hintersect_lo">>, <<r + 1, c, "hintersect_hi">>, <<r, c, "vintersect_hi">> >> >>
    [] index = 6 ->
         << << <<r + 1, c, "hintersect_lo">>, <<r, c + 1, "vintersect_lo">>, <<r, c + 1, "vintersect_hi">>, <<r + 1, c, "hintersect_hi">> >> >>
    [] index = 18 ->
         << << <<r, c + 1, "vintersect_lo">>, <<r, c, "hintersect_lo">>, <<r, c, "hintersect_hi">>, <<r, c + 1, "vintersect_hi">> >> >>
    [] index = 54 ->
         << << <<r, c, "hintersect_lo">>, <<r, c, "vintersect_lo">>, <<r, c, "vintersect_hi">>, <<r, c, "hintersect_hi">> >> >>
    [] index = 4 ->
         << << <<r, c, "vintersect_lo">>, <<r, c + 1, "vintersect_lo">>, <<r + 1, c + 1, "grid">>, <<r + 1, c, "grid">> >> >>
    [] index = 12 ->
         << << <<r, c, "hintersect_lo">>, <<r, c + 1, "grid">>, <<r + 1, c + 1, "grid">>, <<r + 1, c, "hintersect_lo">> >> >>
    [] index = 36 ->
         << << <<r, c, "grid">>, <<r, c + 1, "grid">>, <<r, c + 1, "vintersect_lo">>, <<r, c, "vintersect_lo">> >> >>
    [] index = 28 ->
         << << <<r, c, "hintersect_lo">>, <<r + 1, c, "hintersect_lo">>, <<r + 1, c, "grid">>, <<r, c, "grid">> >> >>
    [] index = 76 ->
         << << <<r, c, "vintersect_hi">>, <<r, c + 1, "vintersect_hi">>, <<r + 1, c + 1, "grid">>, <<r + 1, c, "grid">> >> >>
    [] index = 68 ->
         << << <<r, c, "hintersect_hi">>, <<r, c + 1, "grid">>, <<r + 1, c + 1, "grid">>, <<r + 1, c, "hintersect_hi">> >> >>
    [] index = 44 ->
         << << <<r, c, "grid">>, <<r, c + 1, "grid">>, <<r, c + 1, "vintersect_hi">>, <<r, c, "vintersect_hi">> >> >>
    [] index = 52 ->
         << << <<r, c, "hintersect_hi">>, <<r + 1, c, "hintersect_hi">>, <<r + 1, c, "grid">>, <<r, c, "grid">> >> >>
    [] index = 72 ->
         << << <<r, c, "vintersect_hi">>, <<r, c + 1, "vintersect_hi">>, <<r, c + 1, "vintersect_lo">>, <<r, c, "vintersect_lo">> >> >>
    [] index = 56 ->
         << << <<r, c, "hintersect_hi">>, <<r, c, "hintersect_lo">>, <<r + 1, c, "hintersect_lo">>, <<r + 1, c, "hintersect_hi">> >> >>
    [] index = 8 ->
         << << <<r, c, "vintersect_lo">>, <<r, c + 1, "vintersect_lo">>, <<r, c + 1, "vintersect_hi">>, <<r, c, "vintersect_hi">> >> >>
    [] index = 24 ->
         << << <<r, c, "hintersect_lo">>, <<r, c, "hintersect_hi">>, <<r + 1, c, "hintersect_hi">>, <<r + 1, c, "hintersect_lo">> >> >>
    [] index = 40 ->
         << << <<r, c, "grid">>, <<r, c + 1, "grid">>, <<r + 1, c + 1, "grid">>, <<r + 1, c, "grid">> >> >>
    [] index = 49 ->
         << << <<r, c, "grid">>, <<r, c, "hintersect_hi">>, <<r, c + 1, "vintersect_hi">>, <<r + 1, c + 1, "grid">>, <<r + 1, c, "grid">> >> >>
    [] index = 67 ->
         << << <<r + 1, c, "grid">>, <<r, c, "vintersect_hi">>, <<r, c, "hintersect_hi">>, <<r, c + 1, "grid">>, <<r + 1, c + 1, "grid">> >> >>
    [] index = 41 ->
         << << <<r, c, "grid">>, <<r, c + 1, "grid">>, <<r + 1, c + 1, "grid">>, <<r + 1, c, "hintersect_hi">>, <<r, c, "vintersect_hi">> >> >>
    [] index = 43 ->
         << << <<r, c, "grid">>, <<r, c + 1, "grid">>, <<r, c + 1, "vintersect_hi">>, <<r + 1, c, "hintersect_hi">>, <<r + 1, c, "grid">> >> >>
    [] index = 31 ->
         << << <<r, c, "grid">>, <<r, c, "hintersect_lo">>, <<r, c + 1, "vintersect_lo">>, <<r + 1, c + 1, "grid">>, <<r + 1, c, "grid">> >> >>
    [] index = 13 ->
         << << <<r + 1, c, "grid">>, <<r, c, "vintersect_lo">>, <<r, c, "hintersect_lo">>, <<r, c + 1, "grid">>, <<r + 1, c + 1, "grid">> >> >>
    [] index = 39 ->
         << << <<r, c, "grid">>, <<r, c + 1, "grid">>, <<r + 1, c + 1, "grid">>, <<r + 1, c, "hintersect_lo">>, <<r, c, "vintersect_lo">> >> >>
    [] index = 37 ->
         << << <<r, c, "grid">>, <<r, c + 1, "grid">>, <<r, c + 1, "vintersect_lo">>, <<r + 1, c, "hintersect_lo">>, <<r + 1, c, "grid">> >> >>
    [] index = 45 ->
         << << <<r, c, "grid">>, <<r, c, "hintersect_hi">>, <<r, c + 1, "vintersect_hi">>, <<r, c + 1, "vintersect_lo">>, <<r, c, "vintersect_lo">> >> >>
    [] index = 15 ->
         << << <<r, c + 1, "grid">>, <<r, c + 1, "vintersect_hi">>, <<r + 1, c, "hintersect_hi">>, <<r + 1, c, "hintersect_lo">>, <<r, c, "hintersect_lo">> >> >>
    [] index = 5 ->
         << << <<r, c, "vintersect_lo">>, <<r, c + 1, "vintersect_lo">>, <<r + 1, c + 1, "grid">>, <<r + 1, c, "hintersect_hi">>, <<r, c, "vintersect_hi">> >> >>
    [] index = 55 ->
         << << <<r + 1, c, "grid">>, <<r, c, "vintersect_hi">>, <<r, c, "hintersect_hi">>, <<r, c, "hintersect_lo">>, <<r + 1, c, "hintersect_lo">> >> >>
    [] index = 35 ->
         << << <<r, c, "grid">>, <<r, c, "hintersect_lo">>, <<r, c + 1, "vintersect_lo">>, <<r, c + 1, "vintersect_hi">>, <<r, c, "vintersect_hi">> >> >>
    [] index = 65 ->
         << << <<r, c + 1, "grid">>, <<r, c + 1, "vintersect_lo">>, <<r + 1, c, "hintersect_lo">>, <<r + 1, c, "hintersect_hi">>, <<r, c, "hintersect_hi">> >> >>
    [] index = 75 ->
         << << <<r, c, "vintersect_hi">>, <<r, c + 1, "vintersect_hi">>, <<r + 1, c + 1, "grid">>, <<r + 1, c, "hintersect_lo">>, <<r, c, "vintersect_lo">> >> >>
    [] index = 25 ->
         << << <<r + 1, c, "grid">>, <<r, c, "vintersect_lo">>, <<r, c, "hintersect_lo">>, <<r, c, "hintersect_hi">>, <<r + 1, c, "hintersect_hi">> >> >>
    [] index = 29 ->
         << << <<r, c, "grid">>, <<r, c, "hintersect_lo">>, <<r + 1, c, "hintersect_lo">>, <<r + 1, c, "hintersect_hi">>, <<r, c, "vintersect_hi">> >> >>
    [] index = 63 ->
         << << <<r, c + 1, "grid">>, <<r, c + 1, "vintersect_lo">>, <<r, c, "vintersect_lo">>, <<r, c, "vintersect_hi">>, <<r, c, "hintersect_hi">> >> >>
    [] index = 21 ->
         << << <<r + 1, c + 1, "grid">>, <<r + 1, c, "hintersect_lo">>, <<r, c, "hintersect_lo">>, <<r, c, "hintersect_hi">>, <<r, c + 1, "vintersect_hi">> >> >>
    [] index = 7 ->
         << << <<r + 1, c, "grid">>, <<r, c, "vintersect_lo">>, <<r, c + 1, "vintersect_lo">>, <<r, c + 1, "vintersect_hi">>, <<r + 1, c, "hintersect_hi">> >> >>
    [] index = 51 ->
         << << <<r, c, "grid">>, <<r, c, "hintersect_hi">>, <<r + 1, c, "hintersect_hi">>, <<r + 1, c, "hintersect_lo">>, <<r, c, "vintersect_lo">> >> >>
    [] index = 17 ->
         << << <<r, c + 1, "grid">>, <<r, c + 1, "vintersect_hi">>, <<r, c, "vintersect_hi">>, <<r, c, "vintersect_lo">>, <<r, c, "hintersect_lo">> >> >>
    [] index = 59 ->
         << << <<r + 1, c + 1, "grid">>, <<r + 1, c, "hintersect_hi">>, <<r, c, "hintersect_hi">>, <<r, c, "hintersect_lo">>, <<r, c + 1, "vintersect_lo">> >> >>
    [] index = 73 ->
         << << <<r + 1, c, "grid">>, <<r, c, "vintersect_hi">>, <<r, c + 1, "vintersect_hi">>, <<r, c + 1, "vintersect_lo">>, <<r + 1, c, "hintersect_lo">> >> >>
    [] index = 22 ->
         << << <<r + 1, c, "grid">>, <<r, c, "vintersect_lo">>, <<r, c, "hintersect_lo">>, <<r, c, "hintersect_hi">>, <<r, c + 1, "vintersect_hi">>, <<r + 1, c + 1, "grid">> >> >>
    [] index = 66 ->
         << << <<r, c + 1, "grid">>, <<r + 1, c + 1, "grid">>, <<r + 1, c, "hintersect_lo">>, <<r, c, "vintersect_lo">>, <<r, c, "vintersect_hi">>, <<r, c, "hintersect_hi">> >> >>
    [] index = 38 ->
         << << <<r, c, "grid">>, <<r, c + 1, "grid">>, <<r, c + 1, "vintersect_lo">>, <<r + 1, c, "hintersect_lo">>, <<r + 1, c, "hintersect_hi">>, <<r, c, "vintersect_hi">> >> >>
    [] index = 34 ->
         << << <<r, c, "grid">>, <<r, c, "hintersect_lo">>, <<r, c + 1, "vintersect_lo">>, <<r, c + 1, "vintersect_hi">>, <<r + 1, c, "hintersect_hi">>, <<r + 1, c, "grid">> >> >>
    [] index = 58 ->
         << << <<r + 1, c, "grid">>, <<r, c, "vintersect_hi">>, <<r, c, "hintersect_hi">>, <<r, c, "hintersect_lo">>, <<r, c + 1, "vintersect_lo">>, <<r + 1, c + 1, "grid">> >> >>
    [] index = 14 ->
         << << <<r, c + 1, "grid">>, <<r + 1, c + 1, "grid">>, <<r + 1, c, "hintersect_hi">>, <<r, c, "vintersect_hi">>, <<r, c, "vintersect_lo">>, <<r, c, "hintersect_lo">> >> >>
    [] index = 42 ->
         << << <<r, c, "grid">>, <<r, c + 1, "grid">>, <<r, c + 1, "vintersect_hi">>, <<r + 1, c, "hintersect_hi">>, <<r + 1, c, "hintersect_lo">>, <<r, c, "vintersect_lo">> >> >>
    [] index = 46 ->
         << << <<r, c, "grid">>, <<r, c, "hintersect_hi">>, <<r, c + 1, "vintersect_hi">>, <<r, c + 1, "vintersect_lo">>, <<r + 1, c, "hintersect_lo">>, <<r + 1, c, "grid">> >> >>
    [] index = 64 ->
         << << <<r + 1, c, "grid">>, <<r, c, "vintersect_hi">>, <<r, c, "hintersect_hi">>, <<r, c + 1, "grid">>, <<r, c + 1, "vintersect_lo">>, <<r + 1, c, "hintersect_lo">> >> >>
    [] index = 16 ->
         << << <<r, c + 1, "grid">>, <<r, c + 1, "vintersect_hi">>, <<r + 1, c, "hintersect_hi">>, <<r + 1, c, "grid">>, <<r, c, "vintersect_lo">>, <<r, c, "hintersect_lo">> >> >>
    [] index = 32 ->
         << << <<r, c, "grid">>, <<r, c, "hintersect_lo">>, <<r, c + 1, "vintersect_lo">>, <<r + 1, c + 1, "grid">>, <<r + 1, c, "hintersect_hi">>, <<r, c, "vintersect_hi">> >> >>
    [] index = 48 ->
         << << <<r, c, "grid">>, <<r, c, "hintersect_hi">>, <<r, c + 1, "vintersect_hi">>, <<r + 1, c + 1, "grid">>, <<r + 1, c, "hintersect_lo">>, <<r, c, "vintersect_lo">> >> >>
    [] index = 10 ->
         IF Lt(vc, lo)
         THEN << << <<r + 1, c, "grid">>, <<r, c, "vintersect_lo">>, <<r + 1, c, "hintersect_lo">> >>,
                 << <<r, c + 1, "grid">>, <<r, c + 1, "vintersect_lo">>, <<r, c, "hintersect_lo">> >> >>
         ELSE << << <<r + 1, c, "grid">>, <<r, c, "vintersect_lo">>, <<r, c, "hintersect_lo">>, <<r, c + 1, "grid">>, <<r, c + 1, "vintersect_lo">>, <<r + 1, c, "hintersect_lo">> >> >>
    [] index = 30 ->
         IF Lt(vc, lo)
         THEN << << <<r, c, "grid">>, <<r, c, "hintersect_lo">>, <<r, c, "vintersect_lo">> >>,
                 << <<r + 1, c + 1, "grid">>, <<r + 1, c, "hintersect_lo">>, <<r, c + 1, "vintersect_lo">> >> >>
         ELSE << << <<r, c, "grid">>, <<r, c, "hintersect_lo">>, <<r, c + 1, "vintersect_lo">>, <<r + 1, c + 1, "grid">>, <<r + 1, c, "hintersect_lo">>, <<r, c, "vintersect_lo">> >> >>
    [] index = 70 ->
         IF Ge(vc, hi)
         THEN << << <<r + 1, c, "grid">>, <<r, c, "vintersect_hi">>, <<r + 1, c, "hintersect_hi">> >>,
                 << <<r, c + 1, "grid">>, <<r, c + 1, "vintersect_hi">>, <<r, c, "hintersect_hi">> >> >>
         ELSE << << <<r + 1, c, "grid">>, <<r, c, "vintersect_hi">>, <<r, c, "hintersect_hi">>, <<r, c + 1, "grid">>, <<r, c + 1, "vintersect_hi">>, <<r + 1, c, "hintersect_hi">> >> >>
    [] index = 50 ->
         IF Ge(vc, hi)
         THEN << << <<r, c, "grid">>, <<r, c, "hintersect_hi">>, <<r, c, "vintersect_hi">> >>,
                 << <<r + 1, c + 1, "grid">>, <<r + 1, c, "hintersect_hi">>, <<r, c + 1, "vintersect_hi">> >> >>
         ELSE << << <<r, c, "grid">>, <<r, c, "hintersect_hi">>, <<r, c + 1, "vintersect_hi">>, <<r + 1, c + 1, "grid">>, <<r + 1, c, "hintersect_hi">>, <<r, c, "vintersect_hi">> >> >>
    [] index = 69 ->
         IF Ge(vc, hi)
         THEN << << <<r, c + 1, "grid">>, <<r, c + 1, "vintersect_hi">>, <<r, c, "hintersect_hi">> >>,
                 << <<r, c, "vintersect_hi">>, <<r + 1, c, "hintersect_hi">>, <<r + 1, c, "hintersect_lo">>, <<r, c, "vintersect_lo">> >> >>
         ELSE << << <<r, c + 1, "grid">>, <<r, c + 1, "vintersect_hi">>, <<r + 1, c, "hintersect_hi">>, <<r + 1, c, "hintersect_lo">>, <<r, c, "vintersect_lo">>, <<r, c, "vintersect_hi">>, <<r, c, "hintersect_hi">> >> >>
    [] index = 61 ->
         IF Ge(vc, hi)
         THEN << << <<r + 1, c, "grid">>, <<r, c, "vintersect_hi">>, <<r + 1, c, "hintersect_hi">> >>,
                 << <<r, c + 1, "vintersect_hi">>, <<r, c, "hintersect_hi">>, <<r, c, "hintersect_lo">>, <<r, c + 1, "vintersect_lo">> >> >>
         ELSE << << <<r + 1, c, "grid">>, <<r, c, "vintersect_hi">>, <<r, c, "hintersect_hi">>, <<r, c, "hintersect_lo">>, <<r, c + 1, "vintersect_lo">>, <<r, c + 1, "vintersect_hi">>, <<r + 1, c, "hintersect_hi">> >> >>
    [] index = 47 ->
         IF Ge(vc, hi)
         THEN << << <<r, c, "grid">>, <<r, c, "hintersect_hi">>, <<r, c, "vintersect_hi">> >>,
                 << <<r + 1, c, "hintersect_hi">>, <<r, c + 1, "vintersect_hi">>, <<r, c + 1, "vintersect_lo">>, <<r + 1, c, "hintersect_lo">> >> >>
         ELSE << << <<r, c, "grid">>, <<r, c, "hintersect_hi">>, <<r, c + 1, "vintersect_hi">>, <<r, c + 1, "vintersect_lo">>, <<r + 1, c, "hintersect_lo">>, <<r + 1, c, "hintersect_hi">>, <<r, c, "vintersect_hi">> >> >>
    [] index = 23 ->
         IF Ge(vc, hi)
         THEN << << <<r + 1, c + 1, "grid">>, <<r + 1, c, "hintersect_hi">>, <<r, c + 1, "vintersect_hi">> >>,
                 << <<r, c, "hintersect_hi">>, <<r, c, "vintersect_hi">>, <<r, c, "vintersect_lo">>, <<r, c, "hintersect_lo">> >> >>
         ELSE << << <<r + 1, c + 1, "grid">>, <<r + 1, c, "hintersect_hi">>, <<r, c, "vintersect_hi">>, <<r, c, "vintersect_lo">>, <<r, c, "hintersect_lo">>, <<r, c, "hintersect_hi">>, <<r, c + 1, "vintersect_hi">> >> >>
    [] index = 11 ->
         IF Lt(vc, lo)
         THEN << << <<r, c + 1, "grid">>, <<r, c + 1, "vintersect_lo">>, <<r, c, "hintersect_lo">> >>,
                 << <<r, c, "vintersect_lo">>, <<r + 1, c, "hintersect_lo">>, <<r + 1, c, "hintersect_hi">>, <<r, c, "vintersect_hi">> >> >>
         ELSE << << <<r, c + 1, "grid">>, <<r, c + 1, "vintersect_lo">>, <<r + 1, c, "hintersect_lo">>, <<r + 1, c, "hintersect_hi">>, <<r, c, "vintersect_hi">>, <<r, c, "vintersect_lo">>, <<r, c, "hintersect_lo">> >> >>
    [] index = 19 ->
         IF Lt(vc, lo)
         THEN << << <<r + 1, c, "grid">>, <<r, c, "vintersect_lo">>, <<r + 1, c, "hintersect_lo">> >>,
                 << <<r, c + 1, "vintersect_lo">>, <<r, c, "hintersect_lo">>, <<r, c, "hintersect_hi">>, <<r, c + 1, "vintersect_hi">> >> >>
         ELSE << << <<r + 1, c, "grid">>, <<r, c, "vintersect_lo">>, <<r, c, "hintersect_lo">>, <<r, c, "hintersect_hi">>, <<r, c + 1, "vintersect_hi">>, <<r, c + 1, "vintersect_lo">>, <<r + 1, c, "hintersect_lo">> >> >>
    [] index = 33 ->
         IF Lt(vc, lo)
         THEN << << <<r, c, "grid">>, <<r, c, "hintersect_lo">>, <<r, c, "vintersect_lo">> >>,
                 << <<r + 1, c, "hintersect_lo">>, <<r, c + 1, "vintersect_lo">>, <<r, c + 1, "vintersect_hi">>, <<r + 1, c, "hintersect_hi">> >> >>
         ELSE << << <<r, c, "grid">>, <<r, c, "hintersect_lo">>, <<r, c + 1, "vintersect_lo">>, <<r, c + 1, "vintersect_hi">>, <<r + 1, c, "hintersect_hi">>, <<r + 1, c, "hintersect_lo">>, <<r, c, "vintersect_lo">> >> >>
    [] index = 57 ->
         IF Lt(vc, lo)
         THEN << << <<r + 1, c + 1, "grid">>, <<r + 1, c, "hintersect_lo">>, <<r, c + 1, "vintersect_lo">> >>,
                 << <<r, c, "hintersect_lo">>, <<r, c, "vintersect_lo">>, <<r, c, "vintersect_hi">>, <<r, c, "hintersect_hi">> >> >>
         ELSE << << <<r + 1, c + 1, "grid">>, <<r + 1, c, "hintersect_lo">>, <<r, c, "vintersect_lo">>, <<r, c, "vintersect_hi">>, <<r, c, "hintersect_hi">>, <<r, c, "hintersect_lo">>, <<r, c + 1, "vintersect_lo">> >> >>
    [] index = 60 ->
         IF Lt(vc, lo)
         THEN << << <<r, c, "vintersect_hi">>, <<r, c, "hintersect_hi">>, <<r, c, "hintersect_lo">>, <<r, c, "vintersect_lo">> >>,
                 << <<r, c + 1, "vintersect_hi">>, <<r + 1, c, "hintersect_hi">>, <<r + 1, c, "hintersect_lo">>, <<r, c + 1, "vintersect_lo">> >> >>
         ELSE IF Ge(vc, hi)
         THEN << << <<r, c, "vintersect_hi">>, <<r + 1, c, "hintersect_hi">>, <<r + 1, c, "hintersect_lo">>, <<r, c, "vintersect_lo">> >>,
                 << <<r, c + 1, "vintersect_hi">>, <<r, c, "hintersect_hi">>, <<r, c, "hintersect_lo">>, <<r, c + 1, "vintersect_lo">> >> >>
         ELSE << << <<r, c, "vintersect_hi">>, <<r, c, "hintersect_hi">>, <<r, c, "hintersect_lo">>, <<r, c + 1, "vintersect_lo">>, <<r, c + 1, "vintersect_hi">>, <<r + 1, c, "hintersect_hi">>, <<r + 1, c, "hintersect_lo">>, <<r, c, "vintersect_lo">> >> >>
    [] index = 20 ->
         IF Lt(vc, lo)
         THEN << << <<r, c, "vintersect_lo">>, <<r + 1, c, "hintersect_lo">>, <<r + 1, c, "hintersect_hi">>, <<r, c, "vintersect_hi">> >>,
                 << <<r, c + 1, "vintersect_lo">>, <<r, c, "hintersect_lo">>, <<r, c, "hintersect_hi">>, <<r, c + 1, "vintersect_hi">> >> >>
         ELSE IF Ge(vc, hi)
         THEN << << <<r, c, "vintersect_lo">>, <<r, c, "hintersect_lo">>, <<r, c, "hintersect_hi">>, <<r, c, "vintersect_hi">> >>,
                 << <<r, c + 1, "vintersect_lo">>, <<r + 1, c, "hintersect_lo">>, <<r + 1, c, "hintersect_hi">>, <<r, c + 1, "vintersect_hi">> >> >>
         ELSE << << <<r, c, "vintersect_lo">>, <<r, c, "hintersect_lo">>, <<r, c, "hintersect_hi">>, <<r, c + 1, "vintersect_hi">>, <<r, c + 1, "vintersect_lo">>, <<r + 1, c, "hintersect_lo">>, <<r + 1, c, "hintersect_hi">>, <<r, c, "vintersect_hi">> >> >>
    [] OTHER -> <<>>
isoline_case(index, r, c) ==
  CASE index = 1 ->
         << << <<r, c, "vintersect_lo">>, <<r + 1, c, "hintersect_lo">> >> >>
    [] index = 2 ->
         << << <<r, c + 1, "vintersect_lo">>, <<r + 1, c, "hintersect_lo">> >> >>
    [] index = 3 ->
         << << <<r, c, "vintersect_lo">>, <<r, c + 1, "vintersect_lo">> >> >>
    [] index = 4 ->
         << << <<r, c, "hintersect_lo">>, <<r, c + 1, "vintersect_lo">> >> >>
    [] index = 5 ->
         << << <<r, c + 1, "vintersect_lo">>, <<r + 1, c, "hintersect_lo">> >>,
            << <<r, c, "hintersect_lo">>, <<r, c, "vintersect_lo">> >> >>
    [] index = 6 ->
         << << <<r, c, "hintersect_lo">>, <<r + 1, c, "hintersect_lo">> >> >>
    [] index = 7 ->
         << << <<r, c, "hintersect_lo">>, <<r, c, "vintersect_lo">> >> >>
    [] index = 8 ->
         << << <<r, c, "hintersect_lo">>, <<r, c, "vintersect_lo">> >> >>
    [] index = 9 ->
         << << <<r, c, "hintersect_lo">>, <<r + 1, c, "hintersect_lo">> >> >>
    [] index = 10 ->
         << << <<r, c, "vintersect_lo">>, <<r + 1, c, "hintersect_lo">> >>,
            << <<r, c, "hintersect_lo">>, <<r, c + 1, "vintersect_lo">> >> >>
    [] index = 11 ->
         << << <<r, c, "hintersect_lo">>, <<r, c + 1, "vintersect_lo">> >> >>
    [] index = 12 ->
         << << <<r, c, "vintersect_lo">>, <<r, c + 1, "vintersect_lo">> >> >>
    [] index = 13 ->
         << << <<r, c + 1, "vintersect_lo">>, <<r + 1, c, "hintersect_lo">> >> >>
    [] index = 14 ->
         << << <<r, c, "vintersect_lo">>, <<r + 1, c, "hintersect_lo">> >> >>
    [] OTHER -> <<>>
\* cell_primitives with the points of every polygon in reverse order
cell_primitives_reversed(eng, cl, z, nr, r, c, lo, hi) ==
  LET prims == IF eng = "band"
               THEN isoband_case(cl[r + c * (nr - 1)], r, c, central_value(z, nr, r, c), lo, hi)
               ELSE isoline_case(cl[r + c * (nr - 1)], r, c)
  IN [k \in 1 .. Len(prims) |->
        [i \in 1 .. Len(prims[k]) |-> prims[k][Len(prims[k]) + 1 - i]]]

\* cell_primitives with the first point of every polygon added once more at
\* its end
cell_primitives_closed(eng, cl, z, nr, r, c, lo, hi) ==
  LET prims == IF eng = "band"
               THEN isoband_case(cl[r + c * (nr - 1)], r, c, central_value(z, nr, r, c), lo, hi)
               ELSE isoline_case(cl[r + c * (nr - 1)], r, c)
  IN [k \in 1 .. Len(prims) |-> Append(prims[k], prims[k][1])]

\* the elementary polygons (segments) of cell (r, c), in the order merged
cell_primitives(eng, cl, z, nr, r, c, lo, hi) ==
  IF eng = "band"
  THEN isoband_case(cl[r + c * (nr - 1)], r, c, central_value(z, nr, r, c), lo, hi)
  ELSE isoline_case(cl[r + c * (nr - 1)], r, c)

\* the merge calls of one calculate_contour in loop order: r outer, c inner
RECURSIVE primitives_from(_, _, _, _, _, _, _, _)
primitives_from(n, eng, cl, z, nr, nc, lo, hi) ==
  IF nr - 1 <= 0 \/ nc - 1 <= 0 \/ n >= (nr - 1) * (nc - 1) THEN <<>>
  ELSE cell_primitives(eng, cl, z, nr, n \div (nc - 1), n % (nc - 1), lo, hi)
       \o primitives_from(n + 1, eng, cl, z, nr, nc, lo, hi)

primitives(eng, cl, z, nr, nc, lo, hi) == primitives_from(0, eng, cl, z, nr, nc, lo, hi)

-----------------------------------------------------------------------------
(* polygon stitcher: isobander::poly_merge *)

\* score2 with the weights of its two tests exchanged
score2_weights_exchanged(t, e) == B(t.next = e.prev) + 2 * B(t.prev = e.next)

\* score2 that misses the cancellation in the next direction
score2_misses_next(t, e) == B(t.prev = e.next)

\* score2 that misses the cancellation in the prev direction
score2_misses_prev(t, e) == 2 * B(t.next = e.prev)

\* score of the basic scenario (no alternative point at this location)
score2(t, e) == 2 * B(t.next = e.prev) + B(t.prev = e.next)

\* score4 with the weights of its two alternative-slot tests exchanged
score4_weights_exchanged(t, e) ==
  4 * B(t.next = e.prev2) + 8 * B(t.prev = e.next2)
  + 2 * B(t.next = e.prev) + B(t.prev = e.next)

\* score of the scenario with an alternative point at this location
score4(t, e) ==
  8 * B(t.next = e.prev2) + 4 * B(t.prev = e.next2)
  + 2 * B(t.next = e.prev) + B(t.prev = e.next)

\* merge_basic that keeps the tentative next on score 2
merge_basic_keeps_next(t, e, score) ==
  CASE score = 2 -> t
    [] score = 1 -> [t EXCEPT !.prev = e.prev]
    [] OTHER -> [t EXCEPT !.prev2 = e.prev, !.next2 = e.next, !.altpoint = TRUE]

\* merge_basic that leaves the prev and next of the record as they were on
\* the scores 2 and 1
merge_basic_keeps_primary(t, e, score) ==
  CASE score \in {2, 1} -> [t EXCEPT !.prev = e.prev, !.next = e.next]
    [] OTHER -> [t EXCEPT !.prev2 = e.prev, !.next2 = e.next, !.altpoint = TRUE]

\* merged connection for a point without alternative point, scores 2, 1, 0
merge_basic(t, e, score) ==
  CASE score = 2 -> [t EXCEPT !.next = e.next]
    [] score = 1 -> [t EXCEPT !.prev = e.prev]
    [] OTHER -> [t EXCEPT !.prev2 = e.prev, !.next2 = e.next, !.altpoint = TRUE]

\* merge_alt with the score 1 handled as its comment "0100" reads: as the
\* merge with the alternative point of the score 4
merge_alt_one_as_0100(t, e, score) ==
  CASE score = 9 -> [t EXCEPT !.next = e.next2, !.prev = e.prev]
    [] score = 6 -> [t EXCEPT !.next = e.next, !.prev = e.prev2]
    [] score = 8 -> [t EXCEPT !.next2 = e.next2, !.prev2 = t.prev,
                              !.prev = e.prev, !.next = e.next, !.altpoint = TRUE]
    [] score \in {4, 1} -> [t EXCEPT !.prev2 = e.prev2, !.next2 = t.next,
                              !.prev = e.prev, !.next = e.next, !.altpoint = TRUE]
    [] score = 2 -> [t EXCEPT !.next = e.next,
                              !.prev2 = e.prev2, !.next2 = e.next2, !.altpoint = TRUE]
    [] OTHER -> t

\* merged connection for a point with alternative point, the six legal scores
merge_alt(t, e, score) ==
  CASE score = 9 -> [t EXCEPT !.next = e.next2, !.prev = e.prev]
    [] score = 6 -> [t EXCEPT !.next = e.next, !.prev = e.prev2]
    [] score = 8 -> [t EXCEPT !.next2 = e.next2, !.prev2 = t.prev,
                              !.prev = e.prev, !.next = e.next, !.altpoint = TRUE]
    [] score = 4 -> [t EXCEPT !.prev2 = e.prev2, !.next2 = t.next,
                              !.prev = e.prev, !.next = e.next, !.altpoint = TRUE]
    [] score = 2 -> [t EXCEPT !.next = e.next,
                              !.prev2 = e.prev2, !.next2 = e.next2, !.altpoint = TRUE]
    [] score = 1 -> [t EXCEPT !.prev = e.prev,
                              !.prev2 = e.prev2, !.next2 = e.next2, !.altpoint = TRUE]
    [] OTHER -> t

\* the scores that do not reach "undefined merging configuration"
legal_alt_scores == {9, 6, 8, 4, 2, 1}

\* body of the first loop of poly_merge for the i-th point (1-based) of poly;
\* tpc is tmp_point_connect[i] as the earlier calls left it
merge_vertex(pg, tpc, poly, i) ==
  LET k == Len(poly)
      p == poly[i]
      t == [tpc EXCEPT !.altpoint = FALSE,
                       !.next = poly[IF i + 1 <= k THEN i + 1 ELSE 1],
                       !.prev = poly[IF i - 1 >= 1 THEN i - 1 ELSE k]]
  IN IF p \notin DOMAIN pg
     THEN [tpc |-> t, to_delete |-> FALSE, thrown |-> FALSE, kind |-> "new", score |-> 0]
     ELSE IF ~pg[p].altpoint
     THEN LET score == score2(t, pg[p])
          IN [tpc |-> IF score = 3 THEN t ELSE merge_basic(t, pg[p], score),
              to_delete |-> score = 3, thrown |-> FALSE,
              kind |-> "basic", score |-> score]
     ELSE LET score == score4(t, pg[p])
          IN [tpc |-> merge_alt(t, pg[p], score), to_delete |-> FALSE,
              thrown |-> score \notin legal_alt_scores,
              kind |-> "alt", score |-> score]

\* polygon_grid[p] = rec and polygon_grid.erase(p)
put(pg, p, rec) == (p :> rec) @@ pg
erase(pg, p) == [q \in DOMAIN pg \ {p} |-> pg[q]]

\* commit that copies every point and erases none
RECURSIVE commit_never_erases(_, _, _, _)
commit_never_erases(pg, poly, res, i) ==
  IF i > Len(poly) THEN pg
  ELSE commit_never_erases(put(pg, poly[i], res[i].tpc), poly, res, i + 1)

\* commit that, on copying a point, also resets the alternative slot of the
\* record its next leads to
RECURSIVE commit_resets_next(_, _, _, _)
commit_resets_next(pg, poly, res, i) ==
  IF i > Len(poly) THEN pg
  ELSE LET t == res[i].tpc
           pg1 == put(pg, poly[i], t)
       IN commit_resets_next(
            IF res[i].to_delete THEN erase(pg, poly[i])
            ELSE IF t.next \in DOMAIN pg1
                 THEN put(pg1, t.next, [pg1[t.next] EXCEPT !.altpoint = FALSE])
                 ELSE pg1,
            poly, res, i + 1)

\* second loop of poly_merge from point i on: erase or copy
RECURSIVE commit(_, _, _, _)
commit(pg, poly, res, i) ==
  IF i > Len(poly) THEN pg
  ELSE commit(IF res[i].to_delete THEN erase(pg, poly[i])
              ELSE put(pg, poly[i], res[i].tpc),
              poly, res, i + 1)

\* poly_merge of the elementary polygon poly: the map and tmp_point_connect
\* afterwards; a throw leaves the map as it was
RECURSIVE first_loop(_, _, _, _)
first_loop(pg, tmp, poly, i) ==
  IF i > Len(poly) THEN <<>>
  ELSE LET r == merge_vertex(pg, tmp[i], poly, i)
       IN IF r.thrown THEN <<r>> ELSE <<r>> \o first_loop(pg, tmp, poly, i + 1)

poly_merge_with(pg, tmp, poly, res) ==
  LET stop == Len(res)
      thrown == res[stop].thrown
  IN [grid |-> IF ~thrown THEN commit(pg, poly, res, 1) ELSE pg,
      tmp |-> [j \in 1 .. 8 |-> IF j <= stop THEN res[j].tpc ELSE tmp[j]],
      thrown |-> thrown,
      hang |-> FALSE,
      poly |-> poly,
      kind |-> [i \in 1 .. stop |-> res[i].kind],
      score |-> [i \in 1 .. stop |-> res[i].score]]

poly_merge(pg, tmp, poly) ==
  poly_merge_with(pg, tmp, poly, first_loop(pg, tmp, poly, 1))

-----------------------------------------------------------------------------
(* line stitcher: isoliner::line_merge *)

\* polygon_grid[p] read through operator[]: a missing key is default-inserted
at(pg, p) == IF p \in DOMAIN pg THEN pg[p] ELSE point_connect

\* set_next that creates the record but leaves its next as it was
set_next_drops_link(pg, p, q) == put(pg, p, at(pg, p))

\* set_prev writing the next slot instead of the prev slot
set_prev_writes_next(pg, p, q) == put(pg, p, [at(pg, p) EXCEPT !.next = q])

\* polygon_grid[p].next = q and polygon_grid[p].prev = q
set_next(pg, p, q) == put(pg, p, [at(pg, p) EXCEPT !.next = q])
set_prev(pg, p, q) == put(pg, p, [at(pg, p) EXCEPT !.prev = q])

\* the reversal of case 10 exchanging the slots of the first point only
reverse_by_prev_first_only(pg, cur, fuel) ==
  [grid |-> put(pg, cur, [at(pg, cur) EXCEPT !.prev = at(pg, cur).next,
                                              !.next = at(pg, cur).prev]),
   hang |-> FALSE]

\* "need to reverse connections" of case 10: swap prev and next from cur on,
\* following the old prev, until the default point is reached
RECURSIVE reverse_by_prev(_, _, _)
reverse_by_prev(pg, cur, fuel) ==
  IF fuel = 0 THEN [grid |-> pg, hang |-> TRUE]
  ELSE LET tmp == at(pg, cur).prev
           pg1 == put(pg, cur, [at(pg, cur) EXCEPT !.prev = at(pg, cur).next, !.next = tmp])
       IN IF tmp = grid_point THEN [grid |-> pg1, hang |-> FALSE]
          ELSE reverse_by_prev(pg1, tmp, fuel - 1)

\* "need to reverse connections" of case 5: the same following the old next
RECURSIVE reverse_by_next(_, _, _)
reverse_by_next(pg, cur, fuel) ==
  IF fuel = 0 THEN [grid |-> pg, hang |-> TRUE]
  ELSE LET tmp == at(pg, cur).next
           pg1 == put(pg, cur, [at(pg, cur) EXCEPT !.next = at(pg, cur).prev, !.prev = tmp])
       IN IF tmp = grid_point THEN [grid |-> pg1, hang |-> FALSE]
          ELSE reverse_by_next(pg1, tmp, fuel - 1)

\* iterations after which a reversal loop is known to cycle
reverse_fuel(pg) == 4 * Cardinality(DOMAIN pg) + 4

\* line_merge_both with the weights of the prev test of the first point and
\* the next test of the second exchanged in the score
line_merge_both_weights_exchanged(pg, a, b) ==
  LET sc == 8 * B(pg[a].next = grid_point) + 2 * B(pg[a].prev = grid_point)
                + 4 * B(pg[b].next = grid_point) + B(pg[b].prev = grid_point)
      ok(g) == [grid |-> g, thrown |-> FALSE, hang |-> FALSE, sc2 |-> sc]
  IN CASE sc = 9 -> ok(set_prev(set_next(pg, a, b), b, a))
       [] sc = 6 -> ok(set_next(set_prev(pg, a, b), b, a))
       [] sc = 10 ->
            LET rv == reverse_by_prev(set_next(set_next(pg, a, b), b, a), b, reverse_fuel(pg))
            IN [grid |-> rv.grid, thrown |-> FALSE, hang |-> rv.hang, sc2 |-> sc]
       [] sc = 5 ->
            LET rv == reverse_by_next(set_prev(set_prev(pg, a, b), b, a), a, reverse_fuel(pg))
            IN [grid |-> rv.grid, thrown |-> FALSE, hang |-> rv.hang, sc2 |-> sc]
       [] OTHER -> [grid |-> pg, thrown |-> TRUE, hang |-> FALSE, sc2 |-> sc]

\* case 3 of line_merge, "two-way merge": both end points are in the map
line_merge_both(pg, a, b) ==
  LET sc == 8 * B(pg[a].next = grid_point) + 4 * B(pg[a].prev = grid_point)
                + 2 * B(pg[b].next = grid_point) + B(pg[b].prev = grid_point)
      ok(g) == [grid |-> g, thrown |-> FALSE, hang |-> FALSE, sc2 |-> sc]
  IN CASE sc = 9 -> ok(set_prev(set_next(pg, a, b), b, a))
       [] sc = 6 -> ok(set_next(set_prev(pg, a, b), b, a))
       [] sc = 10 ->
            LET rv == reverse_by_prev(set_next(set_next(pg, a, b), b, a), b, reverse_fuel(pg))
            IN [grid |-> rv.grid, thrown |-> FALSE, hang |-> rv.hang, sc2 |-> sc]
       [] sc = 5 ->
            LET rv == reverse_by_next(set_prev(set_prev(pg, a, b), b, a), a, reverse_fuel(pg))
            IN [grid |-> rv.grid, thrown |-> FALSE, hang |-> rv.hang, sc2 |-> sc]
       [] OTHER -> [grid |-> pg, thrown |-> TRUE, hang |-> FALSE, sc2 |-> sc]

\* line_merge of the segment seg = (tmp_poly[0], tmp_poly[1])
line_merge(pg, tmp, seg) ==
  LET a == seg[1]
      b == seg[2]
      score == 2 * B(b \in DOMAIN pg) + B(a \in DOMAIN pg)
      r == CASE score = 0 ->
                  [grid |-> set_prev(set_next(pg, a, b), b, a),
                   thrown |-> FALSE, hang |-> FALSE, sc2 |-> 0 - 1]
             [] score = 1 ->
                  IF pg[a].next = grid_point
                  THEN [grid |-> set_prev(set_next(pg, a, b), b, a),
                        thrown |-> FALSE, hang |-> FALSE, sc2 |-> 0 - 1]
                  ELSE IF pg[a].prev = grid_point
                  THEN [grid |-> set_next(set_prev(pg, a, b), b, a),
                        thrown |-> FALSE, hang |-> FALSE, sc2 |-> 0 - 1]
                  ELSE [grid |-> pg, thrown |-> TRUE, hang |-> FALSE, sc2 |-> 0 - 1]
             [] score = 2 ->
                  IF pg[b].next = grid_point
                  THEN [grid |-> set_prev(set_next(pg, b, a), a, b),
                        thrown |-> FALSE, hang |-> FALSE, sc2 |-> 0 - 1]
                  ELSE IF pg[b].prev = grid_point
                  THEN [grid |-> set_next(set_prev(pg, b, a), a, b),
                        thrown |-> FALSE, hang |-> FALSE, sc2 |-> 0 - 1]
                  ELSE [grid |-> pg, thrown |-> TRUE, hang |-> FALSE, sc2 |-> 0 - 1]
             [] OTHER -> line_merge_both(pg, a, b)
  IN [grid |-> r.grid, tmp |-> tmp, thrown |-> r.thrown, hang |-> r.hang,
      poly |-> seg, kind |-> <<"line">>, score |-> <<score, r.sc2>>]

-----------------------------------------------------------------------------
(* output coordinates *)

\* isobander::interpolate for finite z0, z1: x0 + d * (x1 - x0) with
\* d = (value - z0) / (z1 - z0); non-finite when a corner is
interpolate(x0, x1, z0, z1, value) ==
  IF ~z0.fin \/ ~z1.fin THEN Frac(0, 0)
  ELSE Frac(x0 * (z1.v - z0.v) + (value - z0.v) * (x1 - x0), z1.v - z0.v)

\* whether calc_point_coords(p) reads only inside grid_x_p, grid_y_p, grid_z_p
in_bounds(p, nr, nc) ==
  /\ 0 <= p[1] /\ p[1] < nr /\ 0 <= p[2] /\ p[2] < nc
  /\ p[3] \in {"hintersect_lo", "hintersect_hi"} => p[2] + 1 < nc
  /\ p[3] \in {"vintersect_lo", "vintersect_hi"} => p[1] + 1 < nr

\* isobander::calc_point_coords
calc_point_coords(p, x, y, z, nr, lo, hi) ==
  LET r == p[1]
      c == p[2]
  IN CASE p[3] = "grid" -> [x |-> Frac(x[c], 1), y |-> Frac(y[r], 1)]
       [] p[3] = "hintersect_lo" ->
            [x |-> interpolate(x[c], x[c + 1], Z(z, nr, r, c), Z(z, nr, r, c + 1), lo),
             y |-> Frac(y[r], 1)]
       [] p[3] = "hintersect_hi" ->
            [x |-> interpolate(x[c], x[c + 1], Z(z, nr, r, c), Z(z, nr, r, c + 1), hi),
             y |-> Frac(y[r], 1)]
       [] p[3] = "vintersect_lo" ->
            [x |-> Frac(x[c], 1),
             y |-> interpolate(y[r], y[r + 1], Z(z, nr, r, c), Z(z, nr, r + 1, c), lo)]
       [] p[3] = "vintersect_hi" ->
            [x |-> Frac(x[c], 1),
             y |-> interpolate(y[r], y[r + 1], Z(z, nr, r, c), Z(z, nr, r + 1, c), hi)]
       [] OTHER -> [x |-> Frac(0, 1), y |-> Frac(0, 1)]

-----------------------------------------------------------------------------
(* collectors *)

\* "skip any grid points that are already fully collected" (isobander)
fully_collected(e) ==
  \/ e.collected /\ ~e.altpoint
  \/ e.collected /\ e.collected2 /\ e.altpoint

\* steps after which the walk of isobander::collect is known never to come
\* back to start: the slot taken at cur depends on (cur, prev) only, and prev
\* is the point just left, so the walk is periodic over (point, slot) pairs
band_fuel(pg) == 2 * Cardinality(DOMAIN pg) + 1

\* band_walk that emits the start point once more when the ring closes
RECURSIVE band_walk_closes_ring(_, _, _, _, _, _, _, _)
band_walk_closes_ring(pg, cur, prev, start, acc, fuel, nr, nc) ==
  IF ~in_bounds(cur, nr, nc) THEN [grid |-> pg, pts |-> acc, end |-> "ub"]
  ELSE IF fuel = 0 THEN [grid |-> pg, pts |-> acc, end |-> "hang"]
  ELSE LET e == at(pg, cur)
           alt == e.altpoint /\ e.prev2 = prev
           pg1 == IF alt THEN put(pg, cur, [e EXCEPT !.collected2 = TRUE])
                  ELSE put(pg, cur, [e EXCEPT !.collected = TRUE])
           newcur == IF alt THEN e.next2 ELSE e.next
       IN IF newcur = start
          THEN [grid |-> pg1, pts |-> Append(Append(acc, cur), start), end |-> "ok"]
          ELSE band_walk_closes_ring(pg1, newcur, cur, start, Append(acc, cur),
                                     fuel - 1, nr, nc)

\* band_walk that follows next at every point, whatever slot it came in by
RECURSIVE band_walk_primary_only(_, _, _, _, _, _, _, _)
band_walk_primary_only(pg, cur, prev, start, acc, fuel, nr, nc) ==
  IF ~in_bounds(cur, nr, nc) THEN [grid |-> pg, pts |-> acc, end |-> "ub"]
  ELSE IF fuel = 0 THEN [grid |-> pg, pts |-> acc, end |-> "hang"]
  ELSE LET e == at(pg, cur)
           pg1 == put(pg, cur, [e EXCEPT !.collected = TRUE, !.collected2 = TRUE])
       IN IF e.next = start
          THEN [grid |-> pg1, pts |-> Append(acc, cur), end |-> "ok"]
          ELSE band_walk_primary_only(pg1, e.next, cur, start, Append(acc, cur),
                                      fuel - 1, nr, nc)

\* the do-while loop of isobander::collect from (cur, prev): the points
\* emitted, the map with its collected marks, and how the loop ended: "ok",
\* "ub" (calc_point_coords of a point off the grid) or "hang"
RECURSIVE band_walk(_, _, _, _, _, _, _, _)
band_walk(pg, cur, prev, start, acc, fuel, nr, nc) ==
  IF ~in_bounds(cur, nr, nc) THEN [grid |-> pg, pts |-> acc, end |-> "ub"]
  ELSE IF fuel = 0 THEN [grid |-> pg, pts |-> acc, end |-> "hang"]
  ELSE LET e == at(pg, cur)
           alt == e.altpoint /\ e.prev2 = prev
           pg1 == IF alt THEN put(pg, cur, [e EXCEPT !.collected2 = TRUE])
                  ELSE put(pg, cur, [e EXCEPT !.collected = TRUE])
           newcur == IF alt THEN e.next2 ELSE e.next
       IN IF newcur = start
          THEN [grid |-> pg1, pts |-> Append(acc, cur), end |-> "ok"]
          ELSE band_walk(pg1, newcur, cur, start, Append(acc, cur), fuel - 1, nr, nc)

\* band_path that begins the walk at the point after it
band_path_from_next(pg, it, nr, nc) ==
  LET e == pg[it]
      alt == e.altpoint /\ ~e.collected2
  IN band_walk(pg, IF alt THEN e.next2 ELSE e.next, it, it, <<>>, band_fuel(pg), nr, nc)

\* one pass of the for loop of isobander::collect that starts a path at it
band_path(pg, it, nr, nc) ==
  LET e == pg[it]
      prev == IF e.altpoint /\ ~e.collected2 THEN e.prev2 ELSE e.prev
  IN band_walk(pg, it, prev, it, <<>>, band_fuel(pg), nr, nc)

\* "back-track until we find the beginning of the line or circle around once"
RECURSIVE back_track(_, _, _, _)
back_track(pg, cur, start, fuel) ==
  IF fuel = 0 THEN [grid |-> pg, cur |-> cur, end |-> "hang"]
  ELSE LET c1 == at(pg, cur).prev
           pg1 == IF cur \in DOMAIN pg THEN pg ELSE put(pg, cur, point_connect)
           pg2 == IF c1 = start \/ c1 \in DOMAIN pg1 THEN pg1 ELSE put(pg1, c1, point_connect)
       IN IF c1 = start \/ at(pg1, c1).prev = grid_point
          THEN [grid |-> pg2, cur |-> c1, end |-> "ok"]
          ELSE back_track(pg2, c1, start, fuel - 1)

\* line_walk that does not emit the start point again when the loop closes
RECURSIVE line_walk_leaves_ring_open(_, _, _, _, _, _, _)
line_walk_leaves_ring_open(pg, cur, start, acc, fuel, nr, nc) ==
  IF ~in_bounds(cur, nr, nc) THEN [grid |-> pg, pts |-> acc, end |-> "ub"]
  ELSE IF fuel = 0 THEN [grid |-> pg, pts |-> acc, end |-> "hang"]
  ELSE LET e == at(pg, cur)
           pg1 == put(pg, cur, [e EXCEPT !.collected = TRUE])
           newcur == e.next
       IN IF newcur = start \/ newcur = grid_point
          THEN [grid |-> pg1, pts |-> Append(acc, cur), end |-> "ok"]
          ELSE line_walk_leaves_ring_open(pg1, newcur, start, Append(acc, cur),
                                          fuel - 1, nr, nc)

\* the forward do-while loop of isoliner::collect
RECURSIVE line_walk(_, _, _, _, _, _, _)
line_walk(pg, cur, start, acc, fuel, nr, nc) ==
  IF ~in_bounds(cur, nr, nc) THEN [grid |-> pg, pts |-> acc, end |-> "ub"]
  ELSE IF fuel = 0 THEN [grid |-> pg, pts |-> acc, end |-> "hang"]
  ELSE LET e == at(pg, cur)
           pg1 == put(pg, cur, [e EXCEPT !.collected = TRUE])
           newcur == e.next
       IN IF newcur = start
          THEN [grid |-> pg1, pts |-> Append(Append(acc, cur), start), end |-> "ok"]
          ELSE IF newcur = grid_point
          THEN [grid |-> pg1, pts |-> Append(acc, cur), end |-> "ok"]
          ELSE line_walk(pg1, newcur, start, Append(acc, cur), fuel - 1, nr, nc)

\* steps after which a loop of isoliner::collect is known never to end: the
\* walk only follows one link per point
line_fuel(pg) == Cardinality(DOMAIN pg) + 1

\* line_path without the back-tracking loop
line_path_no_back_track(pg, it, nr, nc) ==
  line_walk(pg, it, it, <<>>, line_fuel(pg), nr, nc)

\* one pass of the for loop of isoliner::collect that starts a line at it
line_path(pg, it, nr, nc) ==
  LET bt == IF pg[it].prev # grid_point
            THEN back_track(pg, it, it, line_fuel(pg))
            ELSE [grid |-> pg, cur |-> it, end |-> "ok"]
  IN IF bt.end # "ok" THEN [grid |-> bt.grid, pts |-> <<>>, end |-> bt.end]
     ELSE line_walk(bt.grid, bt.cur, bt.cur, <<>>, line_fuel(bt.grid), nr, nc)

-----------------------------------------------------------------------------
(* the entry points isobands_impl / isolines_impl (and their 32-bit twins) *)

\* the arguments of an entry point: they never change
inputs == <<engine, nrow, ncol, lenx, leny, grid_x, grid_y, grid_z, values, n_values>>

\* the state an entry point starts in, with its arguments
Start(eng, nr, nc, lx, ly, x, y, z, vals, n, at_pc) ==
  /\ engine = eng
  /\ nrow = nr /\ ncol = nc /\ lenx = lx /\ leny = ly
  /\ grid_x = x /\ grid_y = y /\ grid_z = z
  /\ values = vals /\ n_values = n
  /\ i_value = 0
  /\ vlo = 0 /\ vhi = 0
  /\ polygon_grid = <<>>
  /\ tmp_point_connect = [j \in 1 .. 8 |-> point_connect]
  /\ cells = <<>>
  /\ todo = <<>>
  /\ n_merged = 0
  /\ last_merge = [poly |-> <<>>, kind |-> <<>>, score |-> <<>>]
  /\ out = <<>>
  /\ cur_id = 0
  /\ visited = {}
  /\ returnstructs = <<>>
  /\ interrupted = FALSE
  /\ interrupt_pending = FALSE
  /\ error = "none"
  /\ pc = at_pc

\* Construct with the check of lenx only
Construct_checks_lenx_only ==
  /\ pc = "entry"
  /\ IF lenx # ncol
     THEN error' = "invalid_argument" /\ pc' = "failed"
     ELSE IF n_values < 0
     THEN error' = "bad_array_new_length" /\ pc' = "failed"
     ELSE error' = error /\ pc' = IF 0 < n_values THEN "loop" ELSE "done"
  /\ interrupted' = FALSE
  /\ UNCHANGED <<inputs, i_value, vlo, vhi, polygon_grid, tmp_point_connect,
                 cells, todo, n_merged, last_merge, out, cur_id, visited,
                 returnstructs, interrupt_pending>>

\* isobander(...) / isoliner(...) constructor, then new resultStruct<T>[n]
Construct ==
  /\ pc = "entry"
  /\ IF lenx # ncol \/ leny # nrow
     THEN error' = "invalid_argument" /\ pc' = "failed"
     ELSE IF n_values < 0
     THEN error' = "bad_array_new_length" /\ pc' = "failed"
     ELSE error' = error /\ pc' = IF 0 < n_values THEN "loop" ELSE "done"
  /\ interrupted' = FALSE
  /\ UNCHANGED <<inputs, i_value, vlo, vhi, polygon_grid, tmp_point_connect,
                 cells, todo, n_merged, last_merge, out, cur_id, visited,
                 returnstructs, interrupt_pending>>

\* CalcStart without reset_grid: the map and tmp_point_connect are kept
CalcStart_keeps_grid ==
  /\ pc = "loop"
  /\ LET lo == values[i_value + 1][1]
         hi == IF engine = "band" THEN values[i_value + 1][2] ELSE vhi
         cl == cell_vector(engine, grid_z, nrow, ncol, lo, hi)
     IN /\ vlo' = lo
        /\ vhi' = hi
        /\ n_merged' = 0
        /\ IF nrow * ncol < 0 \/ (nrow - 1) * (ncol - 1) < 0
           THEN /\ error' = "length_error"
                /\ pc' = "failed"
                /\ cells' = cells
                /\ todo' = <<>>
           ELSE /\ error' = error
                /\ cells' = cl
                /\ todo' = primitives(engine, cl, grid_z, nrow, ncol, lo, hi)
                /\ pc' = IF todo' = <<>> THEN "collect" ELSE "calc"
  /\ UNCHANGED <<inputs, i_value, last_merge, out, cur_id, visited,
                 returnstructs, interrupted, interrupt_pending,
                 polygon_grid, tmp_point_connect>>

\* set_value(values[i]) and calculate_contour() up to its first merge call:
\* reset_grid, the ternarized / binarized vector, the vector cells
CalcStart ==
  /\ pc = "loop"
  /\ LET lo == values[i_value + 1][1]
         hi == IF engine = "band" THEN values[i_value + 1][2] ELSE vhi
         cl == cell_vector(engine, grid_z, nrow, ncol, lo, hi)
     IN /\ vlo' = lo
        /\ vhi' = hi
        /\ polygon_grid' = <<>>
        /\ tmp_point_connect' = [j \in 1 .. 8 |-> point_connect]
        /\ n_merged' = 0
        /\ IF nrow * ncol < 0 \/ (nrow - 1) * (ncol - 1) < 0
           THEN /\ error' = "length_error"
                /\ pc' = "failed"
                /\ cells' = cells
                /\ todo' = <<>>
           ELSE /\ error' = error
                /\ cells' = cl
                /\ todo' = primitives(engine, cl, grid_z, nrow, ncol, lo, hi)
                /\ pc' = IF todo' = <<>> THEN "collect" ELSE "calc"
  /\ UNCHANGED <<inputs, i_value, last_merge, out, cur_id, visited,
                 returnstructs, interrupted, interrupt_pending>>

\* the next poly_merge() / line_merge() call of calculate_contour, with the
\* poly_start / poly_add (line_start / line_add) calls that fill tmp_poly
Merge ==
  /\ pc = "calc"
  /\ LET poly == Head(todo)
         m == IF engine = "band"
              THEN poly_merge(polygon_grid, tmp_point_connect, poly)
              ELSE line_merge(polygon_grid, tmp_point_connect, poly)
     IN /\ polygon_grid' = m.grid
        /\ tmp_point_connect' = m.tmp
        /\ last_merge' = [poly |-> m.poly, kind |-> m.kind, score |-> m.score]
        /\ n_merged' = n_merged + 1
        /\ todo' = Tail(todo)
        /\ error' = IF m.thrown THEN "runtime_error" ELSE error
        /\ pc' = IF m.thrown THEN "failed"
                 ELSE IF m.hang THEN "hang"
                 ELSE IF Len(todo) = 1 THEN "collect"
                 ELSE "calc"
  /\ UNCHANGED <<inputs, i_value, vlo, vhi, cells, out, cur_id, visited,
                 returnstructs, interrupted, interrupt_pending>>

\* a user interrupt arrives before or during calculate_contour; the poll
\* "if (checkInterrupt()) { interrupted = true; return; }" is commented out,
\* so nothing of the engine changes
Interrupt ==
  /\ pc \in {"loop", "calc"}
  /\ ~interrupt_pending
  /\ interrupt_pending' = TRUE
  /\ UNCHANGED <<inputs, i_value, vlo, vhi, polygon_grid, tmp_point_connect,
                 cells, todo, n_merged, last_merge, out, cur_id, visited,
                 returnstructs, interrupted, error, pc>>

\* the map entries the for loop of collect has still to pass and will not skip
uncollected ==
  {p \in DOMAIN polygon_grid \ visited :
     IF engine = "band" THEN ~fully_collected(polygon_grid[p])
     ELSE ~polygon_grid[p].collected}

\* x_out, y_out, id entries pushed for the points pts of path id
emitted(pts, id) ==
  [k \in 1 .. Len(pts) |->
     LET xy == calc_point_coords(pts[k], grid_x, grid_y, grid_z, nrow, vlo, vhi)
     IN [pt |-> pts[k], x |-> xy.x, y |-> xy.y, id |-> id]]

\* one pass of the for loop of collect that is not skipped: the iterator is at
\* entry `it` (the iteration order of the unordered_map is unspecified) and
\* one path is walked and emitted
CollectPath ==
  /\ pc = "collect"
  /\ \E it \in uncollected :
       LET w == IF engine = "band" THEN band_path(polygon_grid, it, nrow, ncol)
                ELSE line_path(polygon_grid, it, nrow, ncol)
       IN /\ cur_id' = cur_id + 1
          /\ out' = out \o emitted(w.pts, cur_id + 1)
          /\ polygon_grid' = w.grid
          /\ visited' = visited \cup {it}
          /\ error' = IF w.end = "ub" THEN "undefined_behaviour" ELSE error
          /\ pc' = CASE w.end = "ub" -> "failed"
                     [] w.end = "hang" -> "hang"
                     [] OTHER -> "collect"
  /\ UNCHANGED <<inputs, i_value, vlo, vhi, tmp_point_connect, cells, todo,
                 n_merged, last_merge, returnstructs, interrupted,
                 interrupt_pending>>

\* CollectReturn with cur_id kept from one collect() to the next
CollectReturn_keeps_cur_id ==
  /\ pc = "collect"
  /\ uncollected = {}
  /\ returnstructs' = Append(returnstructs, out)
  /\ i_value' = i_value + 1
  /\ pc' = IF i_value + 1 < n_values THEN "loop" ELSE "done"
  /\ out' = <<>>
  /\ visited' = {}
  /\ UNCHANGED <<inputs, vlo, vhi, polygon_grid, tmp_point_connect, cells, todo,
                 n_merged, last_merge, interrupted, interrupt_pending, error,
                 cur_id>>

\* the end of collect(): the for loop has passed every entry; the result is
\* stored in returnstructs[i] and the loop of the entry point goes on
CollectReturn ==
  /\ pc = "collect"
  /\ uncollected = {}
  /\ returnstructs' = Append(returnstructs, out)
  /\ i_value' = i_value + 1
  /\ pc' = IF i_value + 1 < n_values THEN "loop" ELSE "done"
  /\ out' = <<>>
  /\ cur_id' = 0
  /\ visited' = {}
  /\ UNCHANGED <<inputs, vlo, vhi, polygon_grid, tmp_point_connect, cells, todo,
                 n_merged, last_merge, interrupted, interrupt_pending, error>>

-----------------------------------------------------------------------------
(* inputs *)

\* rows and columns of the grids enumerated in full
Dim == 3
\* rows and columns of the wide grids, all in band but for a few gaps
Wide == 5
\* most non-finite entries of a grid
MaxNaN == 2
\* most entries of a grid that differ from the level of the others
MaxOdd == 2
\* most thresholds (pairs) handed to one call of an entry point
MaxValues == 2
\* most rows and columns of the grids of the argument checks
MaxSide == 2

\* the two finite levels of the grids, below and above the threshold 1
Low == Fin(0)
High == Fin(2)
Levels == {Low, High}

\* grid_x_p / grid_y_p: column c has x = c, row r has y = r
coords(n) == [k \in 0 .. (n - 1) |-> k]

\* the sets of at most m offsets of a grid with n entries
offsets(n, m) == {{f[i] : i \in 1 .. m} \ {n} : f \in [1 .. m -> 0 .. n]}

\* n * n grids over the two levels with at most MaxNaN entries NaN
gap_grids(n) ==
  {[k \in 0 .. (n * n - 1) |-> IF k \in S THEN NaN ELSE z[k]] :
     z \in [0 .. (n * n - 1) -> Levels], S \in offsets(n * n, MaxNaN)}

\* whether offset k is a corner of the n * n grid, and whether it is on its border
is_corner(k, n) == (k % n) \in {0, n - 1} /\ (k \div n) \in {0, n - 1}
on_border(k, n) == (k % n) \in {0, n - 1} \/ (k \div n) \in {0, n - 1}

\* n * n grids over three levels, the interior at the middle level, at least
\* one corner NaN
corner_grids(n) ==
  {[k \in 0 .. (n * n - 1) |->
      IF ~on_border(k, n) THEN High
      ELSE IF is_corner(k, n) /\ z[k] = 3 THEN NaN
      ELSE Fin(2 * (z[k] % 3))] :
     z \in {y \in [0 .. (n * n - 1) -> 0 .. 3] :
              \E k \in 0 .. (n * n - 1) : is_corner(k, n) /\ y[k] = 3}}

\* n * n grids at the level base but for at most MaxNaN entries NaN
holed_grids(n, base) ==
  {[k \in 0 .. (n * n - 1) |-> IF k \in S THEN NaN ELSE base] :
     S \in offsets(n * n, MaxNaN)}

\* n * n grids at one level but for at most MaxOdd entries at the other
odd_grids(n) ==
  {[k \in 0 .. (n * n - 1) |-> IF (k \in S) = flip THEN Low ELSE High] :
     S \in offsets(n * n, MaxOdd), flip \in BOOLEAN}

\* the pairs (vlo, vhi) of the stitching runs: the lower level in band, the
\* higher level in band, both in band, none in band
Bands == {<<0, 1>>, <<1, 3>>, <<0, 3>>, <<1, 1>>}

\* values_low / values_high and values of the entry-point runs
band_values(n) == [i \in 1 .. n |-> IF i % 2 = 1 THEN <<1, 3>> ELSE <<0, 1>>]
line_values(n) == [i \in 1 .. n |-> IF i % 2 = 1 THEN <<1>> ELSE <<2>>]

-----------------------------------------------------------------------------
(* specifications *)

\* isobander::calculate_contour on its own, for one pair (vlo, vhi)
InitBand ==
  \/ \E z \in gap_grids(Dim), v \in Bands :
       Start("band", Dim, Dim, Dim, Dim, coords(Dim), coords(Dim), z, <<v>>, 1, "loop")
  \/ \E z \in corner_grids(Dim) :
       Start("band", Dim, Dim, Dim, Dim, coords(Dim), coords(Dim), z, <<<<1, 3>>>>, 1, "loop")
  \/ \E z \in holed_grids(Wide, High) :
       Start("band", Wide, Wide, Wide, Wide, coords(Wide), coords(Wide), z, <<<<1, 3>>>>, 1, "loop")

NextBand == CalcStart \/ Merge

SpecBand == InitBand /\ [][NextBand]_vars

\* isoliner::calculate_contour on its own, for one threshold
InitLine ==
  \E z \in gap_grids(Dim), v \in {1, 2} :
    Start("line", Dim, Dim, Dim, Dim, coords(Dim), coords(Dim), z, <<<<v>>>>, 1, "loop")

NextLine == CalcStart \/ Merge

SpecLine == InitLine /\ [][NextLine]_vars

\* an entry point from its call to its return
Init ==
  \/ \E eng \in {"band", "line"}, nr \in -1 .. MaxSide, nc \in -1 .. MaxSide,
        dx \in {0, 1}, dy \in {0, 1}, n \in -1 .. MaxValues :
       \E z \in [0 .. (Abs(nr * nc) - 1) -> Levels] :
         Start(eng, nr, nc, nc + dx, nr + dy, coords(nc + dx), coords(nr + dy), z,
               IF eng = "band" THEN band_values(n) ELSE line_values(n), n, "entry")
  \/ \E eng \in {"band", "line"}, n \in 1 .. MaxValues, z \in odd_grids(Dim) :
       Start(eng, Dim, Dim, Dim, Dim, coords(Dim), coords(Dim), z,
             IF eng = "band" THEN band_values(n) ELSE line_values(n), n, "entry")
  \/ \E z \in holed_grids(Wide, High) :
       Start("band", Wide, Wide, Wide, Wide, coords(Wide), coords(Wide), z,
             band_values(1), 1, "entry")

Next == Construct \/ CalcStart \/ Merge \/ CollectPath \/ CollectReturn

Spec == Init /\ [][Next]_vars

\* an entry point with a user interrupt arriving while it computes
InitCancel ==
  \E eng \in {"band", "line"}, z \in [0 .. (2 * Dim - 1) -> Levels] :
    Start(eng, 2, Dim, Dim, 2, coords(Dim), coords(2), z,
          IF eng = "band" THEN band_values(1) ELSE line_values(1), 1, "loop")

NextCancel == CalcStart \/ Merge \/ Interrupt \/ CollectPath \/ CollectReturn

SpecCancel == InitCancel /\ [][NextCancel]_vars

-----------------------------------------------------------------------------
(* rings of the connectivity map *)

\* the walk along next links from cur, reached from prev, the alternate slot
\* taken exactly when its prev2 is the point just left: whether it comes back
\* to start without passing a point of seen a second time
RECURSIVE ring_walk(_, _, _, _, _)
ring_walk(pg, cur, prev, start, seen) ==
  IF cur \notin DOMAIN pg THEN FALSE
  ELSE LET e == pg[cur]
           newcur == IF e.altpoint /\ e.prev2 = prev THEN e.next2 ELSE e.next
       IN IF newcur = start THEN TRUE
          ELSE IF newcur \in seen THEN FALSE
          ELSE ring_walk(pg, newcur, cur, start, seen \cup {newcur})

\* the ring through v in its primary slot and, at an alternate point, the
\* ring in its alternate slot are simple closed rings
simple_rings_at(pg, v) ==
  /\ ring_walk(pg, v, pg[v].prev, v, {v})
  /\ pg[v].altpoint => ring_walk(pg, v, pg[v].prev2, v, {v})

\* C1: after isobander::calculate_contour has completed, the walk along the
\* next links from any vertex of the map (alternate slot exactly when its
\* prev2 is the vertex just left) returns to that vertex and visits no
\* vertex twice on the way: every ring is a simple closed ring.
C1_SimpleClosedRings ==
  (engine = "band" /\ pc = "collect") =>
    \A v \in DOMAIN polygon_grid : simple_rings_at(polygon_grid, v)

-----------------------------------------------------------------------------
(* merge errors *)

\* the scores computed by the latest merge call at the points that already
\* held an alternative point
alt_scores == {last_merge.score[i] : i \in {j \in DOMAIN last_merge.kind : last_merge.kind[j] = "alt"}}

\* C2: no poly_merge call of isobander::calculate_contour reaches "undefined
\* merging configuration": at a point that already holds an alternative
\* point the 4-bit score is one of 9, 6, 8, 4, 2, 1, for grids with finite
\* and non-finite entries and every vlo <= vhi.
C2_NoUndefinedMerge ==
  engine = "band" =>
    /\ error # "runtime_error"
    /\ alt_scores \subseteq {9, 6, 8, 4, 2, 1}

\* a poly_merge call has merged a polygon into a point holding an alternative point
C2_AltMergeReached ==
  /\ engine = "band"
  /\ pc \in {"calc", "collect"}
  /\ alt_scores # {}


\* C3: no line_merge call of isoliner::calculate_contour throws: a segment
\* never attaches to a point whose prev and next are both set, and when both
\* end points are in the map already the 4-bit score of their empty slots is
\* one of 9, 6, 10, 5.
C3_LineMergeNeverThrows ==
  engine = "line" =>
    /\ error # "runtime_error"
    /\ (last_merge.kind = <<"line">> /\ last_merge.score[1] = 3)
         => last_merge.score[2] \in {9, 6, 10, 5}

\* a line_merge call has joined two points that were both in the map
C3_TwoWayMergeReached ==
  /\ engine = "line"
  /\ pc \in {"calc", "collect"}
  /\ last_merge.kind = <<"line">>
  /\ last_merge.score[1] = 3

-----------------------------------------------------------------------------
(* results of collect *)

\* the results produced so far: those returned and the one being collected
results == {returnstructs[i] : i \in 1 .. Len(returnstructs)} \cup {out}

\* the ids of a result and the entries of its path id, in output order
path_ids(res) == {res[k].id : k \in 1 .. Len(res)}
path(res, id) == SelectSeq(res, LAMBDA e : e.id = id)

\* how often point p is emitted in the path q
occurrences(q, p) == Cardinality({k \in 1 .. Len(q) : q[k].pt = p})

\* C4: in every result of isobander::collect and isoliner::collect the ids
\* start at 1, never decrease and grow by at most 1 from one entry to the
\* next (dense ids, the entries of one path contiguous), and the numbering
\* restarts at 1 for every threshold (pair).
C4_DenseIds ==
  \A res \in results :
    /\ Len(res) > 0 => res[1].id = 1
    /\ \A k \in 1 .. (Len(res) - 1) : res[k + 1].id - res[k].id \in {0, 1}

\* two thresholds have been processed, the second result with two paths
C4_SecondResultReached ==
  /\ Len(returnstructs) = 2
  /\ returnstructs[1] # <<>>
  /\ 2 \in path_ids(returnstructs[2])

\* C5: in the output of isobander::collect the closing vertex of a ring is
\* not repeated: the start vertex of a path is emitted once, and the last
\* entry of the path is the vertex whose next link is the start vertex.
C5_ClosingVertexNotRepeated ==
  engine = "band" =>
    \A id \in path_ids(out) :
      LET q == path(out, id)
          first == q[1].pt
          last == q[Len(q)].pt
      IN /\ occurrences(q, first) = 1
         /\ \/ polygon_grid[last].next = first
            \/ polygon_grid[last].altpoint /\ polygon_grid[last].next2 = first

\* isobander::collect has emitted a ring
C5_RingEmitted ==
  /\ engine = "band"
  /\ pc = "collect"
  /\ out # <<>>

\* C6 as stated: for every path of isobander::collect the first and the last
\* coordinate pair are equal.
C6_FirstEqualsLast ==
  engine = "band" =>
    \A id \in path_ids(out) :
      LET q == path(out, id)
      IN q[1].x = q[Len(q)].x /\ q[1].y = q[Len(q)].y

\* C6 amended: every path of isobander::collect has at least three entries
\* and its first and last entry are different vertices (the ring is closed
\* implicitly, the first vertex is not emitted again).
C6_FirstAndLastDiffer ==
  engine = "band" =>
    \A id \in path_ids(out) :
      LET q == path(out, id)
      IN Len(q) >= 3 /\ q[1].pt # q[Len(q)].pt

\* isobander::collect has emitted two rings
C6_TwoRingsEmitted ==
  /\ engine = "band"
  /\ pc = "collect"
  /\ 2 \in path_ids(out)

\* whether the path q of isoliner::collect is that of an open chain
open_path(q) == polygon_grid[q[1].pt].prev = grid_point

\* C7: a path of isoliner::collect for an open chain starts at the vertex
\* with empty prev, ends at the vertex with empty next, and these differ;
\* for a closed loop the anchor, a vertex the map iteration has reached, is
\* emitted exactly twice, as the first and as the last entry.
C7_LinePathEnds ==
  engine = "line" =>
    \A id \in path_ids(out) :
      LET q == path(out, id)
          first == q[1].pt
          last == q[Len(q)].pt
      IN IF open_path(q)
         THEN polygon_grid[last].next = grid_point /\ first # last
         ELSE first = last /\ occurrences(q, first) = 2 /\ first \in visited

\* isoliner::collect has emitted an open chain and a closed loop
C7_OpenAndClosedEmitted ==
  /\ engine = "line"
  /\ \E i \in path_ids(out) : open_path(path(out, i))
  /\ \E j \in path_ids(out) : ~open_path(path(out, j))

-----------------------------------------------------------------------------
(* cancellation and argument errors *)

\* C8: the cancellation flag: an interrupt requested before or during
\* calculate_contour makes the following collect return an empty result,
\* and no partial output is emitted.
C8_CancelGivesEmptyResult ==
  interrupt_pending =>
    /\ out = <<>>
    /\ \A i \in 1 .. Len(returnstructs) : returnstructs[i] = <<>>

\* C9: with len(x) # ncol or len(y) # nrow an entry point fails with
\* invalid_argument before any threshold is processed: no calculate_contour
\* or collect has run and there is no result.
C9_MismatchFailsAtEntry ==
  (lenx # ncol \/ leny # nrow) =>
    /\ pc \in {"entry", "failed"}
    /\ pc = "failed" => error = "invalid_argument"
    /\ i_value = 0 /\ n_merged = 0 /\ cells = <<>> /\ polygon_grid = <<>>
    /\ out = <<>> /\ returnstructs = <<>>

\* the constructor has thrown for a mismatch of leny alone
C9_MismatchRejected ==
  /\ lenx = ncol /\ leny # nrow
  /\ 0 < n_values
  /\ pc = "failed"
  /\ error = "invalid_argument"

\* C10: a negative nrow, ncol or number of thresholds is reported at entry,
\* before any computation begins: the entry point never gets to its loop.
C10_NegativeCountRejected ==
  (nrow < 0 \/ ncol < 0 \/ n_values < 0) =>
    /\ pc \in {"entry", "failed"}
    /\ i_value = 0 /\ cells = <<>> /\ returnstructs = <<>>
-----------------------------------------------------------------------------
(* coincident thresholds *)

\* isobands_impl for one pair with values_low[0] = values_high[0]
InitThin ==
  \E z \in odd_grids(Dim) :
    Start("band", Dim, Dim, Dim, Dim, coords(Dim), coords(Dim), z,
          <<<<1, 1>>>>, 1, "entry")

NextThin == Construct \/ CalcStart \/ Merge \/ CollectPath \/ CollectReturn

SpecThin == InitThin /\ [][NextThin]_vars

\* C11: an isoband computed with vlo = vhi is empty: no merge call is made,
\* the map stays empty and the result has length 0, also when some z values
\* lie below and others at or above the common threshold.
C11_EqualThresholdsEmpty ==
  vlo = vhi =>
    /\ out = <<>>
    /\ \A i \in 1 .. Len(returnstructs) : returnstructs[i] = <<>>

-----------------------------------------------------------------------------
(* one engine instance, several thresholds *)

\* the map and tmp_point_connect after the merge calls k .. n of prims, made
\* on the map pg and the array tmp
RECURSIVE merge_fold(_, _, _, _, _, _)
merge_fold(eng, pg, tmp, prims, k, n) ==
  IF k > n THEN [grid |-> pg, tmp |-> tmp]
  ELSE LET m == IF eng = "band" THEN poly_merge(pg, tmp, prims[k])
                ELSE line_merge(pg, tmp, prims[k])
       IN merge_fold(eng, m.grid, m.tmp, prims, k + 1, n)

\* what a fresh instance has after the first n merge calls for the pair (lo, hi)
fresh_instance(eng, lo, hi, n) ==
  LET cl == cell_vector(eng, grid_z, nrow, ncol, lo, hi)
      prims == primitives(eng, cl, grid_z, nrow, ncol, lo, hi)
      f == merge_fold(eng, <<>>, [j \in 1 .. 8 |-> point_connect], prims, 1, n)
  IN [grid |-> f.grid, tmp |-> f.tmp, calls |-> Len(prims)]

\* the links of a connection, without its collected marks
links(e) == <<e.prev, e.next, e.prev2, e.next2, e.altpoint>>

\* C12: while the i-th threshold (pair) is computed, the map and
\* tmp_point_connect are those of a fresh instance computing that threshold
\* alone (in particular empty before the first merge call), collect starts
\* with no output, id 0 and no collected mark, the marks it sets change no
\* link, and exactly one result per threshold is returned, in input order.
C12_EachThresholdAsIfFresh ==
  /\ pc \in {"calc", "collect"} =>
       LET f == fresh_instance(engine, values[i_value + 1][1],
                               IF engine = "band" THEN values[i_value + 1][2] ELSE 0,
                               n_merged)
       IN /\ vlo = values[i_value + 1][1]
          /\ engine = "band" => vhi = values[i_value + 1][2]
          /\ Len(returnstructs) = i_value
          /\ pc = "calc" =>
               /\ n_merged < f.calls
               /\ polygon_grid = f.grid
               /\ tmp_point_connect = f.tmp
               /\ out = <<>> /\ cur_id = 0 /\ visited = {}
          /\ pc = "collect" =>
               /\ n_merged = f.calls
               /\ \A p \in DOMAIN f.grid :
                    p \in DOMAIN polygon_grid /\ links(polygon_grid[p]) = links(f.grid[p])
               /\ visited = {} => polygon_grid = f.grid /\ out = <<>> /\ cur_id = 0
  /\ pc = "done" => Len(returnstructs) = n_values /\ i_value = n_values

\* the second threshold is being stitched after a first one that left a
\* non-empty map and a non-empty result
C12_SecondThresholdStitched ==
  /\ i_value = 1
  /\ pc = "calc"
  /\ n_merged > 0
  /\ returnstructs[1] # <<>>

-----------------------------------------------------------------------------
(* single cells *)

\* highest grid value of the single-cell runs
MaxLevel == 4
\* highest threshold of the single-cell runs
MaxCut == 3

\* the all-finite 2 * 2 grids over the levels 0 .. MaxLevel
cell_grids == [0 .. 3 -> {Fin(n) : n \in 0 .. MaxLevel}]

\* calculate_contour of either engine on one cell, thresholds with vlo <= vhi
InitCell ==
  \/ \E z \in cell_grids, lo \in 1 .. MaxCut, hi \in 1 .. MaxCut :
       /\ lo <= hi
       /\ Start("band", 2, 2, 2, 2, coords(2), coords(2), z, <<<<lo, hi>>>>, 1, "loop")
  \/ \E z \in cell_grids, v \in 1 .. MaxCut :
       Start("line", 2, 2, 2, 2, coords(2), coords(2), z, <<<<v>>>>, 1, "loop")

NextCell == CalcStart \/ Merge \/ CollectPath \/ CollectReturn

SpecCell == InitCell /\ [][NextCell]_vars

\* the four corners of cell (r, c): TL, TR, BR, BL
corners(r, c) == <<Z(grid_z, nrow, r, c), Z(grid_z, nrow, r, c + 1),
                   Z(grid_z, nrow, r + 1, c + 1), Z(grid_z, nrow, r + 1, c)>>

\* the rows and columns of the cells
cell_rows == 0 .. (nrow - 2)
cell_cols == 0 .. (ncol - 2)

\* the code of a finite corner by half-open intervals: [vlo, vhi) is 1
interval_code(zv) == IF zv.v < vlo THEN 0 ELSE IF zv.v < vhi THEN 1 ELSE 2

\* the code of a finite corner of the isoliner: [v, oo) is 1
halfline_code(zv) == IF zv.v >= vlo THEN 1 ELSE 0

\* C13: corner coding is closed below and open above in both engines: for
\* finite corners and vlo <= vhi the isobander's index of a cell is
\* 27*TL + 9*TR + 3*BR + BL over the codes 0 (z < vlo), 1 (vlo <= z < vhi),
\* 2 (z >= vhi); the isoliner's is 8*TL + 4*TR + 2*BR + BL over the codes
\* 1 (z >= v), 0 (z < v), before the exchange of the saddles 5 and 10.
C13_ClosedBelowOpenAbove ==
  pc \in {"calc", "collect"} =>
    \A r \in cell_rows, c \in cell_cols :
      LET q == corners(r, c)
          index == cells[r + c * (nrow - 1)]
          band == 27 * interval_code(q[1]) + 9 * interval_code(q[2])
                  + 3 * interval_code(q[3]) + interval_code(q[4])
          line == 8 * halfline_code(q[1]) + 4 * halfline_code(q[2])
                  + 2 * halfline_code(q[3]) + halfline_code(q[4])
      IN IF engine = "band" THEN index = band
         ELSE IF line \in {5, 10} THEN index \in {5, 10}
         ELSE index = line

\* an isoband cell with one corner at vlo, one at vhi and one below vlo
C13_CornersOnThresholds ==
  /\ engine = "band" /\ pc = "calc" /\ vlo < vhi
  /\ corners(0, 0)[1].v = vlo
  /\ corners(0, 0)[2].v = vhi
  /\ corners(0, 0)[3].v < vlo
  /\ cells[0] \div 9 = 5

-----------------------------------------------------------------------------
(* non-finite grid values *)

\* n * n grids over the two levels with at most one entry NaN, +Inf or -Inf
hole_grids(n) ==
  {[k \in 0 .. (n * n - 1) |-> IF k = h THEN w ELSE z[k]] :
     z \in [0 .. (n * n - 1) -> Levels], h \in 0 .. (n * n), w \in {NaN, PInf, NInf}}

\* calculate_contour of either engine on a grid with a non-finite value
InitHole ==
  \E z \in hole_grids(Dim), eng \in {"band", "line"} :
    Start(eng, Dim, Dim, Dim, Dim, coords(Dim), coords(Dim), z,
          IF eng = "band" THEN <<<<1, 3>>>> ELSE <<<<1>>>>, 1, "loop")

NextHole == CalcStart \/ Merge

SpecHole == InitHole /\ [][NextHole]_vars

\* the grid z with its non-finite values replaced by the finite value lvl
healed(z, lvl) == [k \in DOMAIN z |-> IF isfinite(z[k]) THEN z[k] ELSE lvl]

\* whether the four corners of cell (r, c) are finite
all_finite(r, c) == \A i \in 1 .. 4 : corners(r, c)[i].fin

\* the primitives of the cells n, n + 1, ... in loop order: those of the
\* cells with four finite corners, each computed on the grid zh
RECURSIVE finite_cell_primitives(_, _, _)
finite_cell_primitives(n, zh, clh) ==
  IF n >= (nrow - 1) * (ncol - 1) THEN <<>>
  ELSE LET r == n \div (ncol - 1)
           c == n % (ncol - 1)
       IN (IF all_finite(r, c)
           THEN cell_primitives(engine, clh, zh, nrow, r, c, vlo, vhi)
           ELSE <<>>)
          \o finite_cell_primitives(n + 1, zh, clh)

\* C14: a cell with a non-finite corner has index 0 and contributes no
\* segment or polygon, and the merge calls of calculate_contour are exactly
\* those the cells with four finite corners make on the grid whose
\* non-finite values are replaced by a finite one, whichever it is.
C14_SuppressionIsLocal ==
  pc \in {"calc", "collect"} =>
    /\ \A r \in cell_rows, c \in cell_cols :
         ~all_finite(r, c) =>
           /\ cells[r + c * (nrow - 1)] = 0
           /\ cell_primitives(engine, cells, grid_z, nrow, r, c, vlo, vhi) = <<>>
    /\ n_merged = 0 =>
         \A lvl \in Levels :
           LET zh == healed(grid_z, lvl)
               clh == cell_vector(engine, zh, nrow, ncol, vlo, vhi)
           IN todo = finite_cell_primitives(0, zh, clh)

\* the first cell has a non-finite corner and would be a saddle without it;
\* the cell to its right has four finite corners and has made its merge call
C14_NeighbourContributes ==
  /\ pc = "calc" /\ n_merged = 1
  /\ ~isfinite(Z(grid_z, nrow, 0, 0))
  /\ Z(grid_z, nrow, 0, 1) = High /\ Z(grid_z, nrow, 1, 1) = Low
  /\ Z(grid_z, nrow, 1, 0) = High
  /\ cells[0] = 0
  /\ all_finite(0, 1)
  /\ cells[nrow - 1] # 0

-----------------------------------------------------------------------------
(* saddles of the isoliner *)

\* the two grid corners of the cell edge a crossing point lies on
edge_corners(p) ==
  IF p[3] \in {"hintersect_lo", "hintersect_hi"}
  THEN {<<p[1], p[2]>>, <<p[1], p[2] + 1>>}
  ELSE {<<p[1], p[2]>>, <<p[1] + 1, p[2]>>}

\* the corners a segment between two crossing points cuts off: those common
\* to the edges of its two ends
cut_off(seg) == edge_corners(seg[1]) \cap edge_corners(seg[2])

\* the index of the only cell of a 2 * 2 grid before the saddle exchange
raw_line_index ==
  LET q == corners(0, 0)
  IN 8 * halfline_code(q[1]) + 4 * halfline_code(q[2])
     + 2 * halfline_code(q[3]) + halfline_code(q[4])

\* whether the mean of the four corners of the only cell is below v
centre_below ==
  LET q == corners(0, 0) IN q[1].v + q[2].v + q[3].v + q[4].v < 4 * vlo

\* C15: an isoliner cell of index 5 is processed as case 10, and one of
\* index 10 as case 5, exactly when the central value is strictly below v
\* (not when it equals v). Either way the cell emits two segments with four
\* distinct ends, each cutting off one corner: a corner coded 0 when
\* vc >= v, a corner coded 1 when vc < v. For z = [[2,0],[0,2]], v = 1
\* (vc = v) the result is two separate paths of two points.
C15_LineSaddles ==
  (engine = "line" /\ nrow = 2 /\ ncol = 2 /\ pc # "loop" /\ raw_line_index \in {5, 10}) =>
    /\ cells[0] = IF centre_below THEN 15 - raw_line_index ELSE raw_line_index
    /\ (pc = "calc" /\ n_merged = 0) =>
         /\ Len(todo) = 2
         /\ Cardinality({todo[1][1], todo[1][2], todo[2][1], todo[2][2]}) = 4
         /\ \A k \in 1 .. 2 :
              \E cnr \in {<<0, 0>>, <<0, 1>>, <<1, 0>>, <<1, 1>>} :
                /\ cut_off(todo[k]) = {cnr}
                /\ halfline_code(Z(grid_z, nrow, cnr[1], cnr[2])) = IF centre_below THEN 1 ELSE 0
    /\ pc = "done" =>
         LET res == returnstructs[1]
         IN /\ Len(res) = 4
            /\ path_ids(res) = {1, 2}
            /\ Len(path(res, 1)) = 2 /\ Len(path(res, 2)) = 2
            /\ Cardinality({res[k].pt : k \in 1 .. 4}) = 4

\* the result for z = [[2,0],[0,2]], v = 1, where the central value equals v
C15_SaddleAtThreshold ==
  /\ engine = "line" /\ pc = "done" /\ vlo = 1
  /\ corners(0, 0) = <<Fin(2), Fin(0), Fin(2), Fin(0)>>
  /\ cells[0] = 10
  /\ path_ids(returnstructs[1]) = {1, 2}

\* a saddle of index 5 has been processed as case 10
C15_SaddleExchanged ==
  /\ engine = "line" /\ pc = "done"
  /\ raw_line_index = 5 /\ cells[0] = 10

-----------------------------------------------------------------------------
(* isolines against isobands *)

\* isoliner::calculate_contour on an all-finite grid
InitTwin ==
  \/ \E z \in [0 .. (Dim * Dim - 1) -> Levels], v \in {1, 2} :
       Start("line", Dim, Dim, Dim, Dim, coords(Dim), coords(Dim), z, <<<<v>>>>, 1, "loop")
  \/ \E z \in cell_grids, v \in 1 .. MaxCut :
       Start("line", 2, 2, 2, 2, coords(2), coords(2), z, <<<<v>>>>, 1, "loop")

NextTwin == CalcStart \/ Merge

SpecTwin == InitTwin /\ [][NextTwin]_vars

\* the map calculate_contour of engine eng leaves for the pair (lo, hi)
final_map(eng, lo, hi) ==
  fresh_instance(eng, lo, hi, fresh_instance(eng, lo, hi, 0).calls).grid

\* the undirected edges of a map: a point and the point a next or prev link
\* of it names
map_edges(pg) ==
  {{p, pg[p].next} : p \in {q \in DOMAIN pg : pg[q].next # grid_point}}
  \cup {{p, pg[p].prev} : p \in {q \in DOMAIN pg : pg[q].prev # grid_point}}
  \cup {{p, pg[p].next2} : p \in {q \in DOMAIN pg : pg[q].altpoint}}
  \cup {{p, pg[p].prev2} : p \in {q \in DOMAIN pg : pg[q].altpoint}}

\* the outer boundary lines of the grid a point lies on
boundary_lines(p) ==
  (IF p[1] = 0 /\ p[3] \notin {"vintersect_lo", "vintersect_hi"} THEN {"top"} ELSE {})
  \cup (IF p[1] = nrow - 1 /\ p[3] \notin {"vintersect_lo", "vintersect_hi"} THEN {"bottom"} ELSE {})
  \cup (IF p[2] = 0 /\ p[3] \notin {"hintersect_lo", "hintersect_hi"} THEN {"left"} ELSE {})
  \cup (IF p[2] = ncol - 1 /\ p[3] \notin {"hintersect_lo", "hintersect_hi"} THEN {"right"} ELSE {})

\* whether an edge runs along the outer boundary of the grid
on_outer_boundary(e) == \E ln \in {"top", "bottom", "left", "right"} : \A p \in e : ln \in boundary_lines(p)

\* a crossing of the upper threshold named as a crossing of the lower one
as_lo(p) ==
  <<p[1], p[2], CASE p[3] = "hintersect_hi" -> "hintersect_lo"
                  [] p[3] = "vintersect_hi" -> "vintersect_lo"
                  [] OTHER -> p[3]>>

\* the edges of the rings of the band (lo, hi) inside the grid
inner_ring_edges(lo, hi) ==
  {{as_lo(p) : p \in e} : e \in {d \in map_edges(final_map("band", lo, hi)) : ~on_outer_boundary(d)}}

\* C16: on an all-finite grid the undirected segments the isoliner has
\* stitched for v are the ring edges of the isoband [v, hi), hi above every
\* z, that do not run along the outer boundary of the grid, and also those
\* of the isoband [lo, v), lo below every z: saddle cells included.
C16_LineIsBandBoundary ==
  (engine = "line" /\ pc = "collect") =>
    /\ map_edges(polygon_grid) = inner_ring_edges(vlo, MaxLevel + 1)
    /\ map_edges(polygon_grid) = inner_ring_edges(0 - 1, vlo)

\* the isoline of a grid with a saddle cell has been stitched
C16_SaddleStitched ==
  /\ engine = "line" /\ pc = "collect" /\ nrow = Dim
  /\ \E k \in DOMAIN cells : cells[k] \in {5, 10}
  /\ Cardinality(map_edges(polygon_grid)) >= 4

-----------------------------------------------------------------------------
(* crossing vertices *)

\* the codes of the two corners of the edge the crossing p lies on
edge_codes(p) ==
  {IF engine = "band" THEN interval_code(Z(grid_z, nrow, q[1], q[2]))
   ELSE halfline_code(Z(grid_z, nrow, q[1], q[2])) : q \in edge_corners(p)}

\* the interpolation parameter d = (value - z0) / (z1 - z0) of the crossing p
crossing_parameter(p) ==
  LET z0 == Z(grid_z, nrow, p[1], p[2])
      z1 == IF p[3] \in {"hintersect_lo", "hintersect_hi"}
            THEN Z(grid_z, nrow, p[1], p[2] + 1)
            ELSE Z(grid_z, nrow, p[1] + 1, p[2])
      value == IF p[3] \in {"hintersect_lo", "vintersect_lo"} THEN vlo ELSE vhi
  IN [num |-> IF z1.v > z0.v THEN value - z0.v ELSE z0.v - value,
      den |-> Abs(z1.v - z0.v)]

\* whether the fraction q lies in [a, a + 1]
within_unit(q, a) == q.den > 0 /\ a * q.den <= q.num /\ q.num <= (a + 1) * q.den

\* C17: with vlo <= vhi every crossing vertex either engine emits lies on a
\* cell edge whose corners are on opposite sides of its threshold: a lo
\* crossing on an edge with one corner coded 0 and the other not, a hi
\* crossing on an edge with one corner coded 2 and the other not; the
\* interpolation does not divide by zero, its parameter d is in [0, 1] and
\* the emitted coordinate lies between the two corners.
C17_CrossingsOnSignChange ==
  \A res \in results : \A k \in 1 .. Len(res) :
    LET p == res[k].pt
        d == crossing_parameter(p)
    IN p[3] # "grid" =>
         /\ p[3] \in {"hintersect_lo", "vintersect_lo"} =>
              0 \in edge_codes(p) /\ edge_codes(p) # {0}
         /\ p[3] \in {"hintersect_hi", "vintersect_hi"} =>
              2 \in edge_codes(p) /\ edge_codes(p) # {2}
         /\ d.den > 0 /\ 0 <= d.num /\ d.num <= d.den
         /\ IF p[3] \in {"hintersect_lo", "hintersect_hi"}
            THEN within_unit(res[k].x, p[2]) /\ res[k].y = Frac(p[1], 1)
            ELSE within_unit(res[k].y, p[1]) /\ res[k].x = Frac(p[2], 1)

\* an isoband ring with a lo and a hi crossing on the same edge, the hi
\* crossing at a corner (d = 0 or d = 1) has been emitted
C17_BothCrossingsOnOneEdge ==
  /\ engine = "band" /\ pc = "done" /\ vlo < vhi
  /\ \E k \in 1 .. Len(returnstructs[1]), j \in 1 .. Len(returnstructs[1]) :
       LET p == returnstructs[1][k].pt
           q == returnstructs[1][j].pt
       IN /\ p[3] = "hintersect_lo" /\ q = <<p[1], p[2], "hintersect_hi">>
          /\ crossing_parameter(q).num \in {0, crossing_parameter(q).den}

-----------------------------------------------------------------------------
(* cancellation of shared edges *)

\* the directed edges of the elementary polygon poly
poly_edges(poly) == {<<poly[i], poly[(i % Len(poly)) + 1]>> : i \in 1 .. Len(poly)}

\* the directed edges of all elementary polygons of this calculate_contour
emitted_edges ==
  LET prims == primitives(engine, cells, grid_z, nrow, ncol, vlo, vhi)
  IN UNION {poly_edges(prims[k]) : k \in 1 .. Len(prims)}

\* the directed edges of the map, primary and alternative slot
directed_edges(pg) ==
  {<<p, pg[p].next>> : p \in DOMAIN pg}
  \cup {<<p, pg[p].next2>> : p \in {q \in DOMAIN pg : pg[q].altpoint}}

\* the points lying on the cell edge from grid point (r, c) to its right
\* ("h") or lower ("v") neighbour
edge_points(kind, r, c) ==
  IF kind = "h"
  THEN {<<r, c, "grid">>, <<r, c + 1, "grid">>, <<r, c, "hintersect_lo">>, <<r, c, "hintersect_hi">>}
  ELSE {<<r, c, "grid">>, <<r + 1, c, "grid">>, <<r, c, "vintersect_lo">>, <<r, c, "vintersect_hi">>}

\* the cell edges between two cells that both have four finite corners
shared_cell_edges ==
  {s \in {<<"h", r, c>> : r \in 1 .. (nrow - 2), c \in cell_cols} :
     all_finite(s[2] - 1, s[3]) /\ all_finite(s[2], s[3])}
  \cup {s \in {<<"v", r, c>> : r \in cell_rows, c \in 1 .. (ncol - 2)} :
          all_finite(s[2], s[3] - 1) /\ all_finite(s[2], s[3])}

\* whether the directed edge e runs along a shared cell edge
along_shared(e) ==
  \E s \in shared_cell_edges :
    e[1] \in edge_points(s[1], s[2], s[3]) /\ e[2] \in edge_points(s[1], s[2], s[3])

\* C18: in the map isobander::calculate_contour leaves, no directed edge is
\* held twice (in the primary and in the alternative slot of a point), and
\* a polygon edge along a cell edge shared by two cells with finite corners
\* is emitted by both, with the same two points in opposite directions, and
\* is in the map in neither direction; so is every edge emitted both ways.
C18_SharedEdgesCancelled ==
  (engine = "band" /\ pc = "collect" /\ visited = {}) =>
    /\ \A p \in DOMAIN polygon_grid :
         polygon_grid[p].altpoint =>
           /\ polygon_grid[p].next # polygon_grid[p].next2
           /\ polygon_grid[p].prev # polygon_grid[p].prev2
    /\ \A e \in emitted_edges :
         /\ along_shared(e) => <<e[2], e[1]>> \in emitted_edges
         /\ <<e[2], e[1]>> \in emitted_edges => e \notin directed_edges(polygon_grid)

\* two neighbouring cells have emitted an edge between two grid points both
\* ways; one of the points is still in the map, the other has been erased
C18_EdgeCancelled ==
  /\ engine = "band" /\ pc = "collect"
  /\ \E e \in emitted_edges :
       /\ e[1][3] = "grid" /\ e[2][3] = "grid"
       /\ along_shared(e)
       /\ <<e[2], e[1]>> \in emitted_edges
       /\ e[1] \in DOMAIN polygon_grid
       /\ e[2] \notin DOMAIN polygon_grid

-----------------------------------------------------------------------------
(* orientation of the elementary polygons *)

\* where the point p lies on the perimeter of cell (r, c), walking from TL
\* along the top edge to TR (1), down to BR (2), back to BL (3) and up to
\* TL: a fraction in [0, 4)
perimeter(p, r, c) ==
  LET d == crossing_parameter(p)
  IN CASE p = <<r, c, "grid">> -> [num |-> 0, den |-> 1]
       [] p = <<r, c + 1, "grid">> -> [num |-> 1, den |-> 1]
       [] p = <<r + 1, c + 1, "grid">> -> [num |-> 2, den |-> 1]
       [] p = <<r + 1, c, "grid">> -> [num |-> 3, den |-> 1]
       [] p[1] = r /\ p[2] = c /\ p[3] \in {"hintersect_lo", "hintersect_hi"} ->
            [num |-> d.num, den |-> d.den]
       [] p[1] = r /\ p[2] = c + 1 /\ p[3] \in {"vintersect_lo", "vintersect_hi"} ->
            [num |-> d.den + d.num, den |-> d.den]
       [] p[1] = r + 1 /\ p[2] = c /\ p[3] \in {"hintersect_lo", "hintersect_hi"} ->
            [num |-> 3 * d.den - d.num, den |-> d.den]
       [] p[1] = r /\ p[2] = c /\ p[3] \in {"vintersect_lo", "vintersect_hi"} ->
            [num |-> 4 * d.den - d.num, den |-> d.den]
       [] OTHER -> [num |-> 0 - 1, den |-> 1]

\* the steps of the polygon poly of cell (r, c) that go back on the perimeter
steps_back(poly, r, c) ==
  {i \in 1 .. Len(poly) :
     LET a == perimeter(poly[i], r, c)
         b == perimeter(poly[(i % Len(poly)) + 1], r, c)
     IN a.num * b.den > b.num * a.den}

\* C19: every elementary polygon of the isoband case table lists its points
\* clockwise around the cell, in the cyclic order TL, top edge, TR, right
\* edge, BR, bottom edge, BL, left edge: every point lies on the perimeter
\* of the cell and going round the polygon the perimeter position steps
\* back exactly once (never, when all its points coincide).
C19_PolygonsClockwise ==
  (engine = "band" /\ pc = "calc" /\ n_merged = 0 /\ nrow = 2 /\ ncol = 2) =>
    \A k \in 1 .. Len(todo) :
      /\ \A i \in 1 .. Len(todo[k]) : perimeter(todo[k][i], 0, 0).num >= 0
      /\ Cardinality(steps_back(todo[k], 0, 0)) <= 1

\* the eight-sided polygon of a saddle with the central value in the band
C19_OctagonEmitted ==
  /\ engine = "band" /\ pc = "calc" /\ n_merged = 0
  /\ cells[0] \in {20, 60}
  /\ Len(todo) = 1 /\ Len(todo[1]) = 8
  /\ Cardinality(steps_back(todo[1], 0, 0)) = 1

-----------------------------------------------------------------------------
(* the isoline around a single grid point *)

\* the 3 * 3 grid that is High at its centre and Low elsewhere
peak_grid == [k \in 0 .. 8 |-> IF k = 4 THEN High ELSE Low]

\* the crossings on the four grid edges that meet at the centre, clockwise:
\* (1, 1/2), (3/2, 1), (1, 3/2), (1/2, 1)
peak_ring ==
  << [pt |-> <<0, 1, "vintersect_lo">>, x |-> Frac(1, 1), y |-> Frac(1, 2)],
     [pt |-> <<1, 1, "hintersect_lo">>, x |-> Frac(3, 2), y |-> Frac(1, 1)],
     [pt |-> <<1, 1, "vintersect_lo">>, x |-> Frac(1, 1), y |-> Frac(3, 2)],
     [pt |-> <<1, 0, "hintersect_lo">>, x |-> Frac(1, 2), y |-> Frac(1, 1)] >>

\* C20: for the 3 * 3 grid whose only value at or above v is the centre
\* (z = 0, centre 2, v = 1: the example scaled by 2) the isoliner returns
\* exactly one path, the closed ring through the four crossings on the grid
\* edges that meet at the centre, in cyclic order in one of the two
\* directions: four vertices, the first emitted again as the fifth entry.
C20_RingAroundPeak ==
  (engine = "line" /\ nrow = 3 /\ ncol = 3 /\ grid_z = peak_grid /\ Len(returnstructs) >= 1) =>
    LET res == returnstructs[1]
    IN /\ Len(res) = 5
       /\ \A k \in 1 .. 5 : res[k].id = 1
       /\ \E s \in 0 .. 3, dir \in {1, 3} :
            \A k \in 1 .. 5 :
              LET want == peak_ring[((s + dir * (k - 1)) % 4) + 1]
              IN res[k].pt = want.pt /\ res[k].x = want.x /\ res[k].y = want.y

\* the isoliner has returned its result for the peak grid and v = 1
C20_PeakReturned ==
  /\ engine = "line" /\ grid_z = peak_grid /\ nrow = 3 /\ ncol = 3
  /\ pc = "done" /\ n_values = 1
  /\ values[1] = <<1>>
  /\ returnstructs[1] # <<>>

-----------------------------------------------------------------------------
(* layout of the array z *)

\* the array z with the four entries a, b, c, d at the offsets 0, 1, 2, 3
flat(a, b, c, d) == [k \in 0 .. 3 |-> Fin(<<a, b, c, d>>[k + 1])]

\* the x and y of the entries of the result res, as a set of pairs
xy_set(res) == {<<res[k].x, res[k].y>> : k \in 1 .. Len(res)}

\* the result of the isoliner for the array zs and v = 1, once returned
line_result_is(zs, pts) ==
  (engine = "line" /\ nrow = 2 /\ ncol = 2 /\ grid_z = zs
   /\ values = <<<<1>>>> /\ pc = "done") =>
    LET res == returnstructs[1]
    IN /\ Len(res) = 2
       /\ path_ids(res) = {1}
       /\ xy_set(res) = pts

\* C21 as stated: for z = [[0,0],[2,2]] passed as the row-major array
\* (0, 0, 2, 2), v = 1 (the example scaled by 2), the isoliner returns one
\* open polyline of 2 points, (0, 1/2) and (1, 1/2).
C21_RowMajorExample ==
  line_result_is(flat(0, 0, 2, 2),
                 {<<Frac(0, 1), Frac(1, 2)>>, <<Frac(1, 1), Frac(1, 2)>>})

\* C21 amended: the array is read with element (r, c) at offset
\* r + c * nrow; z = [[0,0],[2,2]] is the array (0, 2, 0, 2) and gives the
\* polyline (0, 1/2), (1, 1/2) through the crossings of the two vertical
\* grid edges; the array (0, 0, 2, 2) gives (1/2, 0), (1/2, 1).
C21_ColumnMajorExample ==
  /\ line_result_is(flat(0, 2, 0, 2),
                    {<<Frac(0, 1), Frac(1, 2)>>, <<Frac(1, 1), Frac(1, 2)>>})
  /\ line_result_is(flat(0, 0, 2, 2),
                    {<<Frac(1, 2), Frac(0, 1)>>, <<Frac(1, 2), Frac(1, 1)>>})
  /\ (engine = "line" /\ nrow = 2 /\ ncol = 2 /\ grid_z = flat(0, 2, 0, 2)
      /\ values = <<<<1>>>> /\ pc = "done") =>
       {returnstructs[1][k].pt : k \in 1 .. 2}
         = {<<0, 0, "vintersect_lo">>, <<0, 1, "vintersect_lo">>}

\* the isoliner has returned its result for the array (0, 2, 0, 2), v = 1
C21_ExampleReturned ==
  /\ engine = "line" /\ grid_z = flat(0, 2, 0, 2) /\ values = <<<<1>>>>
  /\ pc = "done"
  /\ Len(returnstructs[1]) = 2

-----------------------------------------------------------------------------
(* grids that vary along one axis *)

\* the Dim * Dim grids whose value depends on the column only, or on the
\* row only
ramp_grids ==
  {[k \in 0 .. (Dim * Dim - 1) |-> Fin(a[IF by_col THEN k \div Dim ELSE k % Dim])] :
     a \in [0 .. (Dim - 1) -> 0 .. MaxLevel], by_col \in BOOLEAN}

\* isobands_impl for the band (1, 3) on such a grid
InitRamp ==
  \E z \in ramp_grids :
    Start("band", Dim, Dim, Dim, Dim, coords(Dim), coords(Dim), z, <<<<1, 3>>>>, 1, "entry")

NextRamp == Construct \/ CalcStart \/ Merge \/ CollectPath \/ CollectReturn

SpecRamp == InitRamp /\ [][NextRamp]_vars

\* the 3 * 3 grid with z[i][j] = 2 * j
column_ramp == [k \in 0 .. 8 |-> Fin(2 * (k \div 3))]

\* the vertices of the ring of the band (1, 3) on column_ramp
ramp_ring ==
  {<<r, 0, "hintersect_lo">> : r \in 0 .. 2}
  \cup {<<r, 1, "hintersect_hi">> : r \in 0 .. 2}
  \cup {<<0, 1, "grid">>, <<2, 1, "grid">>}

\* C22: for the 3 * 3 grid z[i][j] = 2 * j and the band (1, 3) (the example
\* scaled by 2) the map calculate_contour leaves holds the lo crossings of
\* every grid row between columns 0 and 1, the hi crossings of every grid
\* row between columns 1 and 2 and the lattice points (0,1) and (2,1), not
\* the lattice point (1,1); collect returns these 8 vertices as one ring,
\* a rectangle with x from 1/2 to 3/2 and y from 0 to 2.
C22_OneRectangularRing ==
  (engine = "band" /\ nrow = 3 /\ ncol = 3 /\ grid_z = column_ramp) =>
    /\ (pc = "collect" /\ visited = {}) =>
         /\ DOMAIN polygon_grid = ramp_ring
         /\ \A p \in ramp_ring : ~polygon_grid[p].altpoint
    /\ pc = "done" =>
         LET res == returnstructs[1]
         IN /\ Len(res) = 8
            /\ path_ids(res) = {1}
            /\ {res[k].pt : k \in 1 .. 8} = ramp_ring
            /\ xy_set(res) = {<<Frac(a, 2), Frac(b, 1)>> : a \in {1, 3}, b \in 0 .. 2}
                             \cup {<<Frac(1, 1), Frac(0, 1)>>, <<Frac(1, 1), Frac(2, 1)>>}

\* isobands_impl has returned the ring for column_ramp
C22_RampReturned ==
  /\ engine = "band" /\ grid_z = column_ramp /\ nrow = 3 /\ ncol = 3
  /\ pc = "done"
  /\ Len(returnstructs[1]) = 8

-----------------------------------------------------------------------------
(* every slot is collected once *)

\* how often collect has to emit the point p: once per slot
slots(p) == IF polygon_grid[p].altpoint THEN 2 ELSE 1

\* C23: whatever the iteration order of the map, isobander::collect emits
\* every slot exactly once: no point is emitted more often than it has
\* slots, and when the for loop has passed every entry each point without
\* alternative slot has been emitted once, each point with one twice, and
\* the output has one entry per slot.
C23_EverySlotOnce ==
  (engine = "band" /\ pc = "collect") =>
    /\ \A k \in 1 .. Len(out) : out[k].pt \in DOMAIN polygon_grid
    /\ \A p \in DOMAIN polygon_grid : occurrences(out, p) <= slots(p)
    /\ uncollected = {} =>
         /\ \A p \in DOMAIN polygon_grid : occurrences(out, p) = slots(p)
         /\ Len(out) = Cardinality(DOMAIN polygon_grid)
                       + Cardinality({p \in DOMAIN polygon_grid : polygon_grid[p].altpoint})

-----------------------------------------------------------------------------
(* links of the isoband map *)

\* whether the record of q names p as a predecessor
has_prev(pg, q, p) == pg[q].prev = p \/ (pg[q].altpoint /\ pg[q].prev2 = p)

\* C24: after every poly_merge the map is link-closed: prev and next of
\* every record (prev2 and next2 too where altpoint is set) are keys of the
\* map, so none names a point erased by a cancel, and the point named by a
\* next or next2 link names the record's point as its prev or prev2.
C24_LinkClosed ==
  (engine = "band" /\ pc \in {"calc", "collect"}) =>
    \A p \in DOMAIN polygon_grid :
      LET e == polygon_grid[p]
      IN /\ e.prev \in DOMAIN polygon_grid
         /\ e.next \in DOMAIN polygon_grid
         /\ has_prev(polygon_grid, e.next, p)
         /\ e.altpoint =>
              /\ e.prev2 \in DOMAIN polygon_grid
              /\ e.next2 \in DOMAIN polygon_grid
              /\ has_prev(polygon_grid, e.next2, p)

\* a poly_merge other than the last has erased a point by a cancel and
\* left a point with an alternative slot in the map
C24_CancelMidway ==
  /\ engine = "band" /\ pc = "calc"
  /\ 3 \in {last_merge.score[i] : i \in 1 .. Len(last_merge.score)}
  /\ \E p \in DOMAIN polygon_grid : polygon_grid[p].altpoint

-----------------------------------------------------------------------------
(* chains of the isoline map *)

\* the number of slots of the record of p that are set
degree(pg, p) == B(pg[p].prev # grid_point) + B(pg[p].next # grid_point)

\* the point reached from cur by following next until it is empty, or cur
\* itself once fuel steps were made without reaching an empty next
RECURSIVE chain_tail(_, _, _)
chain_tail(pg, cur, fuel) ==
  IF fuel = 0 \/ pg[cur].next = grid_point THEN cur
  ELSE chain_tail(pg, pg[cur].next, fuel - 1)

\* C25: after every line_merge the isoline map is a set of doubly linked
\* chains: p.next = q iff q.prev = p for all keys p, q; every record has
\* prev or next set; every link that is set is a key of the map; and a
\* record has exactly one slot set iff it is an end of an open polyline,
\* that is, the record with only next set leads along next to a different
\* record with only prev set, and a record with both set has neighbours.
C25_DoublyLinkedChains ==
  (engine = "line" /\ pc \in {"calc", "collect"}) =>
    LET pg == polygon_grid
        n == Cardinality(DOMAIN pg)
    IN /\ \A p \in DOMAIN pg : \A q \in DOMAIN pg :
            (pg[p].next = q) <=> (pg[q].prev = p)
       /\ \A p \in DOMAIN pg :
            /\ degree(pg, p) >= 1
            /\ pg[p].prev \in DOMAIN pg \cup {grid_point}
            /\ pg[p].next \in DOMAIN pg \cup {grid_point}
            /\ pg[p].prev # p /\ pg[p].next # p
            /\ (pg[p].prev = grid_point) =>
                 LET t == chain_tail(pg, p, n)
                 IN t # p /\ pg[t].next = grid_point /\ degree(pg, t) = 1

\* a line_merge has joined two chains by reversing one of them and the
\* map holds an open chain of more than two points
C25_ReversedChain ==
  /\ engine = "line" /\ pc \in {"calc", "collect"}
  /\ last_merge.score \in {<<3, 10>>, <<3, 5>>}
  /\ \E p \in DOMAIN polygon_grid :
       /\ polygon_grid[p].prev = grid_point
       /\ polygon_grid[polygon_grid[p].next].next # grid_point
-----------------------------------------------------------------------------
(* joins of two isoline chains that reverse one of them *)

\* the points met from cur by following next (fwd) or prev until the link
\* is empty or a point is met again
RECURSIVE walk(_, _, _, _)
walk(pg, cur, fwd, seen) ==
  IF cur = grid_point \/ cur \in seen \/ cur \notin DOMAIN pg THEN seen
  ELSE walk(pg, IF fwd THEN pg[cur].next ELSE pg[cur].prev, fwd, seen \cup {cur})

\* the chain of the map that p lies on
chain_of(pg, p) == walk(pg, p, TRUE, {}) \cup walk(pg, p, FALSE, {})

\* whether the chain of p has an end with an empty prev and one with an
\* empty next
open_chain(pg, p) ==
  /\ \E q \in chain_of(pg, p) : pg[q].prev = grid_point
  /\ \E q \in chain_of(pg, p) : pg[q].next = grid_point

\* C26: when line_merge joins two chains head-to-head (score 10) or
\* tail-to-tail (score 5), the two end points lie on two different open
\* chains, the reversal loop terminates at the far end of the chain it
\* reverses, and afterwards the two chains are one open chain of all points
\* of both, linked consistently with exactly one empty prev and one empty
\* next; the records outside the two chains are unchanged.
C26_ReversingJoin ==
  [][(engine = "line" /\ pc = "calc" /\ last_merge'.kind = <<"line">>
        /\ last_merge'.score \in {<<3, 10>>, <<3, 5>>}) =>
       LET pg == polygon_grid
           a == last_merge'.poly[1]
           b == last_merge'.poly[2]
           A == chain_of(pg, a)
           Bc == chain_of(pg, b)
           rev == IF last_merge'.score[2] = 10 THEN Bc ELSE A
           far == IF last_merge'.score[2] = 10
                  THEN CHOOSE q \in Bc : pg[q].prev = grid_point
                  ELSE CHOOSE q \in A : pg[q].next = grid_point
           pg1 == polygon_grid'
           J == chain_of(pg1, a)
       IN /\ A \cap Bc = {}
          /\ open_chain(pg, a) /\ open_chain(pg, b)
          /\ pc' # "hang"
          /\ IF last_merge'.score[2] = 10
             THEN pg1[far].next = grid_point
             ELSE pg1[far].prev = grid_point
          /\ DOMAIN pg1 = DOMAIN pg
          /\ J = A \cup Bc
          /\ Cardinality({q \in J : pg1[q].prev = grid_point}) = 1
          /\ Cardinality({q \in J : pg1[q].next = grid_point}) = 1
          /\ \A p \in J : \A q \in J : (pg1[p].next = q) <=> (pg1[q].prev = p)
          /\ \A p \in J : pg1[p].prev \in J \cup {grid_point}
                          /\ pg1[p].next \in J \cup {grid_point}
          /\ \A p \in rev : pg1[p].prev # pg[p].prev
          /\ \A p \in DOMAIN pg \ J : pg1[p] = pg[p]]_vars

\* a tail-to-tail join (score 5) has just reversed a chain of at least
\* three points and the joined chain holds six or more
C26_LongChainReversed ==
  /\ engine = "line" /\ pc \in {"calc", "collect"}
  /\ last_merge.score = <<3, 5>>
  /\ Cardinality(chain_of(polygon_grid, last_merge.poly[1])) >= 6
  /\ LET a == last_merge.poly[1]
     IN polygon_grid[polygon_grid[a].prev].prev # grid_point
-----------------------------------------------------------------------------
(* the two phases of poly_merge *)

\* the points of the elementary polygon poly
poly_points(poly) == {poly[i] : i \in 1 .. Len(poly)}

\* which branch of the first loop the i-th point of poly takes against pg
kind_against(pg, poly, i) ==
  IF poly[i] \notin DOMAIN pg THEN "new"
  ELSE IF ~pg[poly[i]].altpoint THEN "basic" ELSE "alt"

\* the score of the i-th point of poly against the map pg: 0 for a point
\* not in the map, the two-bit score without an alternative slot and the
\* four-bit score with one
score_against(pg, poly, i) ==
  LET k == Len(poly)
      p == poly[i]
      nxt == poly[IF i + 1 <= k THEN i + 1 ELSE 1]
      prv == poly[IF i - 1 >= 1 THEN i - 1 ELSE k]
  IN IF p \notin DOMAIN pg THEN 0
     ELSE IF ~pg[p].altpoint
     THEN 2 * B(nxt = pg[p].prev) + B(prv = pg[p].next)
     ELSE 8 * B(nxt = pg[p].prev2) + 4 * B(prv = pg[p].next2)
          + 2 * B(nxt = pg[p].prev) + B(prv = pg[p].next)

\* C27: poly_merge is a two-phase commit: every score of the elementary
\* polygon is the score against the map as it was before the call, and the
\* call changes only the records keyed by the points of that polygon: a
\* point with the cancel score is erased, every other point of the polygon
\* holds the record computed for it, and every other record of the map is
\* what it was.
C27_TwoPhaseCommit ==
  [][(engine = "band" /\ pc = "calc" /\ pc' \in {"calc", "collect"}
        /\ n_merged' = n_merged + 1) =>
       LET pg == polygon_grid
           pg1 == polygon_grid'
           poly == last_merge'.poly
           sc == last_merge'.score
       IN /\ Len(sc) = Len(poly)
          /\ \A i \in 1 .. Len(poly) :
               /\ sc[i] = score_against(pg, poly, i)
               /\ last_merge'.kind[i] = kind_against(pg, poly, i)
          /\ \A i \in 1 .. Len(poly) :
               IF kind_against(pg, poly, i) = "basic" /\ sc[i] = 3
               THEN poly[i] \notin DOMAIN pg1
               ELSE poly[i] \in DOMAIN pg1
                    /\ pg1[poly[i]] = tmp_point_connect'[i]
          /\ DOMAIN pg1 \ poly_points(poly) = DOMAIN pg \ poly_points(poly)
          /\ \A p \in DOMAIN pg \ poly_points(poly) : pg1[p] = pg[p]]_vars

\* a poly_merge has just rewritten a record whose neighbour outside the
\* polygon keeps an alternative slot, and has erased another point
C27_NeighbourKept ==
  /\ engine = "band" /\ pc \in {"calc", "collect"}
  /\ 3 \in {last_merge.score[i] : i \in 1 .. Len(last_merge.score)}
  /\ \E i \in 1 .. Len(last_merge.poly) :
       LET p == last_merge.poly[i]
       IN /\ p \in DOMAIN polygon_grid
          /\ last_merge.score[i] \in {1, 2}
          /\ \E q \in {polygon_grid[p].prev, polygon_grid[p].next} :
               /\ q \notin poly_points(last_merge.poly)
               /\ polygon_grid[q].altpoint
-----------------------------------------------------------------------------
(* the merge of a point that holds an alternative slot *)

\* the point merged and the points its links and the polygon may name
alt_point == <<1, 1, "grid">>
alt_neighbours ==
  {<<0, 1, "vintersect_lo">>, <<1, 0, "hintersect_lo">>, <<1, 1, "hintersect_hi">>,
   <<1, 1, "vintersect_hi">>, <<0, 1, "grid">>}

\* poly_merge of a triangle through alt_point against a map that holds
\* alt_point with both slots in use
InitAlt ==
  \E e1 \in alt_neighbours, e2 \in alt_neighbours, e3 \in alt_neighbours,
     e4 \in alt_neighbours, t1 \in alt_neighbours, t2 \in alt_neighbours :
    /\ t1 # t2
    /\ engine = "band"
    /\ nrow = 2 /\ ncol = 2 /\ lenx = 2 /\ leny = 2
    /\ grid_x = coords(2) /\ grid_y = coords(2)
    /\ grid_z = [k \in 0 .. 3 |-> Low]
    /\ values = <<<<1, 3>>>> /\ n_values = 1
    /\ i_value = 0
    /\ vlo = 1 /\ vhi = 3
    /\ polygon_grid = (alt_point :> [point_connect EXCEPT !.prev = e1, !.next = e2,
                                       !.prev2 = e3, !.next2 = e4, !.altpoint = TRUE])
    /\ tmp_point_connect = [j \in 1 .. 8 |-> point_connect]
    /\ cells = <<>>
    /\ todo = <<<<t1, alt_point, t2>>>>
    /\ n_merged = 0
    /\ last_merge = [poly |-> <<>>, kind |-> <<>>, score |-> <<>>]
    /\ out = <<>>
    /\ cur_id = 0
    /\ visited = {}
    /\ returnstructs = <<>>
    /\ interrupted = FALSE
    /\ interrupt_pending = FALSE
    /\ error = "none"
    /\ pc = "calc"

NextAlt == Merge

SpecAlt == InitAlt /\ [][NextAlt]_vars

\* the slots of a record in use, each as <<prev, next>>
primary(rec) == <<rec.prev, rec.next>>
alternate(rec) == <<rec.prev2, rec.next2>>

\* the points with an edge into p and the points with an edge out of p that
\* remain when the tentative edges tprev -> p -> tnext are added to those of
\* the record e and every tentative edge is cancelled against the opposite
\* existing edge
remaining_in(e, tprev, tnext) ==
  ({e.prev, e.prev2} \ {tnext}) \cup (IF tprev \in {e.next, e.next2} THEN {} ELSE {tprev})
remaining_out(e, tprev, tnext) ==
  ({e.next, e.next2} \ {tprev}) \cup (IF tnext \in {e.prev, e.prev2} THEN {} ELSE {tnext})

\* the points with an edge into and out of the point of a stored record
stored_in(rec) == {rec.prev} \cup (IF rec.altpoint THEN {rec.prev2} ELSE {})
stored_out(rec) == {rec.next} \cup (IF rec.altpoint THEN {rec.next2} ELSE {})

\* C28: for a point that holds an alternative slot, poly_merge with a legal
\* score stores exactly the edges that remain after the cancellation:
\* 9 and 6 leave one slot and clear altpoint (9: prev -> p -> next2,
\* 6: prev2 -> p -> next); 8 and 4 keep the primary slot and merge the
\* alternative (8: tentative prev -> p -> next2, 4: prev2 -> p -> tentative
\* next); 2 and 1 keep the alternative slot and merge the primary
\* (2: tentative prev -> p -> next, 1: prev -> p -> tentative next).
C28_AltMergeTable ==
  [][(pc = "calc" /\ pc' = "collect" /\ alt_point \in DOMAIN polygon_grid
        /\ polygon_grid[alt_point].altpoint /\ Len(todo) = 1
        /\ Head(todo)[2] = alt_point) =>
       LET e == polygon_grid[alt_point]
           tprev == Head(todo)[1]
           tnext == Head(todo)[3]
           rec == polygon_grid'[alt_point]
           sc == last_merge'.score[2]
       IN /\ sc \in legal_alt_scores
          /\ sc = 8 * B(tnext = e.prev2) + 4 * B(tprev = e.next2)
                  + 2 * B(tnext = e.prev) + B(tprev = e.next)
          /\ stored_in(rec) = remaining_in(e, tprev, tnext)
          /\ stored_out(rec) = remaining_out(e, tprev, tnext)
          /\ sc = 9 => ~rec.altpoint /\ primary(rec) = <<e.prev, e.next2>>
          /\ sc = 6 => ~rec.altpoint /\ primary(rec) = <<e.prev2, e.next>>
          /\ sc = 8 => /\ rec.altpoint /\ primary(rec) = primary(e)
                       /\ alternate(rec) = <<tprev, e.next2>>
          /\ sc = 4 => /\ rec.altpoint /\ primary(rec) = primary(e)
                       /\ alternate(rec) = <<e.prev2, tnext>>
          /\ sc = 2 => /\ rec.altpoint /\ alternate(rec) = alternate(e)
                       /\ primary(rec) = <<tprev, e.next>>
          /\ sc = 1 => /\ rec.altpoint /\ alternate(rec) = alternate(e)
                       /\ primary(rec) = <<e.prev, tnext>>]_vars

\* a triangle has been merged with score 1 at a point whose four links
\* were four different points
C28_ScoreOneMerged ==
  /\ pc = "collect" /\ Len(last_merge.poly) = 3
  /\ last_merge.poly[2] = alt_point
  /\ last_merge.kind[2] = "alt" /\ last_merge.score[2] = 1
  /\ LET rec == polygon_grid[alt_point]
     IN Cardinality({rec.prev, rec.prev2, rec.next2}) = 3 /\ rec.next = last_merge.poly[3]
-----------------------------------------------------------------------------
(* what a merge does to the primary slot of a record *)

\* whether the step is a merge call that did not throw
merge_step == pc = "calc" /\ n_merged' = n_merged + 1 /\ pc' \in {"calc", "collect"}

\* whether the step is a line_merge that reverses a chain
reversal_step ==
  engine = "line" /\ merge_step /\ last_merge'.score \in {<<3, 10>>, <<3, 5>>}

\* The statement of C29 as it stands: a prev or next that is set is changed
\* by a merge only when the record is erased or a chain is reversed.
C29_PrimaryNeverOverwritten ==
  [][(merge_step /\ ~reversal_step) =>
       \A p \in DOMAIN polygon_grid \cap DOMAIN polygon_grid' :
         LET e == polygon_grid[p]
             rec == polygon_grid'[p]
         IN /\ e.prev # grid_point => rec.prev = e.prev
            /\ e.next # grid_point => rec.next = e.next]_vars

\* C29: poly_merge overwrites the primary slot of every point of the
\* polygon that is in the map and not erased: score 2 keeps next and
\* replaces prev by the tentative prev, score 1 keeps prev and replaces next
\* by the tentative next, score 0 moves the pair to the alternative slot and
\* stores the tentative pair, the three-way merge 9 keeps prev and replaces
\* next by next2 (6: keeps next, prev2 for prev); the records off the polygon
\* keep their slot. In line stitching no record is erased and a prev or
\* next that is set changes only in a chain reversal.
C29_PrimaryRewrittenByMerge ==
  [][merge_step =>
       LET pg == polygon_grid
           pg1 == polygon_grid'
           poly == last_merge'.poly
           k == Len(poly)
       IN IF engine = "line"
          THEN /\ DOMAIN pg \subseteq DOMAIN pg1
               /\ ~reversal_step =>
                    \A p \in DOMAIN pg :
                      /\ pg[p].prev # grid_point => pg1[p].prev = pg[p].prev
                      /\ pg[p].next # grid_point => pg1[p].next = pg[p].next
          ELSE /\ \A p \in (DOMAIN pg \cap DOMAIN pg1) \ poly_points(poly) :
                    primary(pg1[p]) = primary(pg[p])
               /\ \A i \in 1 .. k :
                    (poly[i] \in DOMAIN pg /\ poly[i] \in DOMAIN pg1) =>
                      LET e == pg[poly[i]]
                          rec == pg1[poly[i]]
                          tnext == poly[IF i + 1 <= k THEN i + 1 ELSE 1]
                          tprev == poly[IF i - 1 >= 1 THEN i - 1 ELSE k]
                          kd == last_merge'.kind[i]
                          sc == last_merge'.score[i]
                      IN /\ (kd = "basic" /\ sc = 2) =>
                              rec.next = e.next /\ rec.prev = tprev /\ rec.prev # e.prev
                         /\ (kd = "basic" /\ sc = 1) =>
                              rec.prev = e.prev /\ rec.next = tnext /\ rec.next # e.next
                         /\ (kd = "basic" /\ sc = 0) =>
                              /\ primary(rec) = <<tprev, tnext>>
                              /\ rec.altpoint /\ alternate(rec) = primary(e)
                         /\ (kd = "alt" /\ sc = 9) =>
                              rec.prev = e.prev /\ rec.next = e.next2
                         /\ (kd = "alt" /\ sc = 6) =>
                              rec.next = e.next /\ rec.prev = e.prev2]_vars

\* a poly_merge has stored its tentative prev over the prev of a record
\* that it kept, and the next of that record is the one it had
C29_PrevReplaced ==
  /\ engine = "band" /\ pc \in {"calc", "collect"}
  /\ \E i \in 1 .. Len(last_merge.poly) :
       /\ last_merge.kind[i] = "basic" /\ last_merge.score[i] = 2
       /\ last_merge.poly[i] \in DOMAIN polygon_grid
       /\ polygon_grid[last_merge.poly[i]].prev
            = last_merge.poly[IF i - 1 >= 1 THEN i - 1 ELSE Len(last_merge.poly)]
       /\ polygon_grid[last_merge.poly[i]].next \notin poly_points(last_merge.poly)
-----------------------------------------------------------------------------
(* no loops of one or two points in the isoband map *)

\* whether the slot <<prev, next>> of the point p names two different
\* points other than p
proper_slot(p, slot) == slot[1] # slot[2] /\ slot[1] # p /\ slot[2] # p

\* C30: in every state of the isoband map reachable after a poly_merge,
\* every record keyed by p has prev # next, prev # p and next # p, and the
\* same for prev2 and next2 when altpoint is set: no point points to itself
\* and there is no ring of two points.
C30_NoSelfOrTwoRing ==
  (engine = "band" /\ pc \in {"calc", "collect"}) =>
    \A p \in DOMAIN polygon_grid :
      /\ proper_slot(p, primary(polygon_grid[p]))
      /\ polygon_grid[p].altpoint => proper_slot(p, alternate(polygon_grid[p]))
      /\ \A q \in DOMAIN polygon_grid :
           (polygon_grid[p].next = q /\ ~polygon_grid[q].altpoint) =>
             polygon_grid[q].next # p

\* a poly_merge has merged a point in the next direction and another in
\* the prev direction while the map holds a point with both slots in use
C30_MergedBothWays ==
  /\ engine = "band" /\ pc \in {"calc", "collect"}
  /\ {1, 2} \subseteq {last_merge.score[i] : i \in 1 .. Len(last_merge.score)}
  /\ \E p \in DOMAIN polygon_grid : polygon_grid[p].altpoint
-----------------------------------------------------------------------------
(* saddles of the isobander *)

\* the indices of the saddle cases by the test that selects their sub-shape
low_saddles == {10, 30, 11, 19, 33, 57}
high_saddles == {70, 50, 69, 61, 47, 23}
double_saddles == {60, 20}

\* the code of the grid corner q
corner_code(q) == interval_code(Z(grid_z, nrow, q[1], q[2]))

\* the crossing points on the four edges of cell (r, c)
edge_points_of(r, c) ==
  {<<r, c, "hintersect_lo">>, <<r, c, "hintersect_hi">>,
   <<r + 1, c, "hintersect_lo">>, <<r + 1, c, "hintersect_hi">>,
   <<r, c, "vintersect_lo">>, <<r, c, "vintersect_hi">>,
   <<r, c + 1, "vintersect_lo">>, <<r, c + 1, "vintersect_hi">>}

\* the points the band has on the perimeter of cell (r, c): the corners in
\* band, a lo crossing on every edge with one corner below vlo and a hi
\* crossing on every edge with one corner at or above vhi
band_points(r, c) ==
  {<<q[1], q[2], "grid">> :
     q \in {k \in {<<r, c>>, <<r, c + 1>>, <<r + 1, c + 1>>, <<r + 1, c>>} : corner_code(k) = 1}}
  \cup {p \in edge_points_of(r, c) :
          LET side == IF p[3] \in {"hintersect_lo", "vintersect_lo"} THEN 0 ELSE 2
          IN Cardinality({q \in edge_corners(p) : corner_code(q) = side}) = 1}

\* the number of times the point p occurs in the polygons polys
RECURSIVE uses(_, _)
uses(polys, p) ==
  IF polys = <<>> THEN 0
  ELSE Cardinality({i \in 1 .. Len(Head(polys)) : Head(polys)[i] = p}) + uses(Tail(polys), p)

\* the corners common to the edges of all crossing points of the polygon
enclosed_corners(poly) ==
  {q \in {<<0, 0>>, <<0, 1>>, <<1, 1>>, <<1, 0>>} :
     \A i \in 1 .. Len(poly) : poly[i][3] # "grid" /\ q \in edge_corners(poly[i])}

\* C31: the saddle cells of the isobander take their sub-shape from the
\* central value vc alone: the indices 10, 30, 11, 19, 33, 57 give two
\* polygons iff vc < vlo and one otherwise; 70, 50, 69, 61, 47, 23 give two
\* iff vc >= vhi and one otherwise; 60 and 20 give two polygons around the
\* corners at or above vhi if vc < vlo, two around the corners below vlo if
\* vc >= vhi and one octagon if vlo <= vc < vhi; and the polygons of a
\* sub-shape together use each corner in band and each crossing on the
\* edges of the cell exactly once, and no other point.
C31_SaddleSubShapes ==
  (engine = "band" /\ pc = "calc" /\ n_merged = 0 /\ nrow = 2 /\ ncol = 2
     /\ cells[0] \in low_saddles \cup high_saddles \cup double_saddles) =>
    LET q == corners(0, 0)
        sum == q[1].v + q[2].v + q[3].v + q[4].v
        below == sum < 4 * vlo
        above == sum >= 4 * vhi
        index == cells[0]
    IN /\ index \in low_saddles => Len(todo) = IF below THEN 2 ELSE 1
       /\ index \in high_saddles => Len(todo) = IF above THEN 2 ELSE 1
       /\ index \in double_saddles =>
            /\ Len(todo) = IF below \/ above THEN 2 ELSE 1
            /\ (~below /\ ~above) => Len(todo[1]) = 8
            /\ below => \A k \in 1 .. 2 :
                 \E e \in enclosed_corners(todo[k]) : corner_code(e) = 2
            /\ (~below /\ above) => \A k \in 1 .. 2 :
                 \E e \in enclosed_corners(todo[k]) : corner_code(e) = 0
       /\ \A p \in band_points(0, 0) : uses(todo, p) = 1
       /\ \A k \in 1 .. Len(todo) : \A i \in 1 .. Len(todo[k]) :
            todo[k][i] \in band_points(0, 0)

\* an eight-sided saddle with the central value at or above vhi is about to
\* merge two polygons, each around a corner below vlo
C31_DoubleSaddleAbove ==
  /\ engine = "band" /\ pc = "calc" /\ n_merged = 0 /\ nrow = 2 /\ ncol = 2
  /\ cells[0] \in double_saddles
  /\ Ge(central_value(grid_z, nrow, 0, 0), vhi)
  /\ Len(todo) = 2 /\ vlo < vhi
-----------------------------------------------------------------------------
(* termination of the collectors *)

\* the pass of the for loop of collect that starts at the entry it
path_from(it) ==
  IF engine = "band" THEN band_path(polygon_grid, it, nrow, ncol)
  ELSE line_path(polygon_grid, it, nrow, ncol)

\* C32: both collectors terminate on every map calculate_contour leaves,
\* whatever entry the iteration of the map reaches next: the walk of the
\* isobander comes back to its start point, so the last point emitted has
\* the start as its next or next2; the back-tracking loop of the isoliner
\* stops at a point with an empty prev or at its start and the forward walk
\* at an empty next or at its anchor, which is then emitted once more.
C32_CollectorsTerminate ==
  /\ pc # "hang"
  /\ pc = "collect" =>
       \A it \in uncollected :
         LET w == path_from(it)
             n == Len(w.pts)
         IN /\ w.end = "ok"
            /\ n >= 1
            /\ n <= 2 * Cardinality(DOMAIN polygon_grid) + 1
            /\ IF engine = "band"
               THEN /\ w.pts[1] = it
                    /\ it \in {polygon_grid[w.pts[n]].next, polygon_grid[w.pts[n]].next2}
               ELSE \/ /\ polygon_grid[w.pts[1]].prev = grid_point
                       /\ polygon_grid[w.pts[n]].next = grid_point
                    \/ /\ n >= 2 /\ w.pts[n] = w.pts[1]
                       /\ polygon_grid[w.pts[n - 1]].next = w.pts[1]

\* the collector of the isobander is about to start at a point with an
\* alternative slot while another path has been emitted already
C32_StartAtSharedPoint ==
  /\ engine = "band" /\ pc = "collect" /\ cur_id >= 1
  /\ \E it \in uncollected : polygon_grid[it].altpoint /\ ~polygon_grid[it].collected2
-----------------------------------------------------------------------------
(* where alternative slots arise *)

\* the 3 * 3 grids of finite values: all over the three levels 0, 2, 4 around
\* the band (1, 3), and those over two levels far enough apart for the
\* central value of a saddle to fall below vlo (-4, 4) or reach vhi (0, 8)
solid_grids ==
  [0 .. (Dim * Dim - 1) -> {Fin(0), Fin(2), Fin(4)}]
  \cup [0 .. (Dim * Dim - 1) -> {Fin(0 - 4), Fin(4)}]
  \cup [0 .. (Dim * Dim - 1) -> {Fin(0), Fin(8)}]

\* isobander::calculate_contour for the band (1, 3) on the finite grids and
\* on the three-level grids with NaN corners
InitSolid ==
  \E z \in solid_grids \cup corner_grids(Dim) :
    Start("band", Dim, Dim, Dim, Dim, coords(Dim), coords(Dim), z, <<<<1, 3>>>>, 1, "loop")

NextSolid == CalcStart \/ Merge

SpecSolid == InitSolid /\ [][NextSolid]_vars

\* whether every entry of grid_z is finite
grid_finite == \A k \in DOMAIN grid_z : isfinite(grid_z[k])

\* the cells that have the grid corner p as one of their corners
cells_at(p) ==
  {rc \in cell_rows \X cell_cols :
     rc[1] \in {p[1] - 1, p[1]} /\ rc[2] \in {p[2] - 1, p[2]}}

\* C33: an alternative slot arises only at a grid corner, and only when a
\* cell at that corner is suppressed by a non-finite value; on a grid of
\* finite values no record has altpoint set after any poly_merge, and every
\* merge at a point already in the map has the two-bit score 1, 2 or 3.
C33_AltOnlyAtSuppressedCorner ==
  (engine = "band" /\ pc \in {"calc", "collect"}) =>
    /\ \A p \in DOMAIN polygon_grid :
         polygon_grid[p].altpoint =>
           /\ p[3] = "grid"
           /\ \E rc \in cells_at(p) : ~all_finite(rc[1], rc[2])
    /\ grid_finite =>
         /\ \A p \in DOMAIN polygon_grid : ~polygon_grid[p].altpoint
         /\ \A i \in 1 .. Len(last_merge.kind) :
              /\ last_merge.kind[i] \in {"new", "basic"}
              /\ last_merge.kind[i] = "basic" => last_merge.score[i] \in {1, 2, 3}

\* on a grid of finite values with corners below, in and above the band the
\* fourth cell at the centre corner has cancelled it, and on no other grid
\* does the claim say more
C33_CentreCornerCancelled ==
  /\ engine = "band" /\ pc = "collect" /\ grid_finite
  /\ {corner_code(<<r, c>>) : r \in 0 .. 2, c \in 0 .. 2} = {0, 1, 2}
  /\ \E i \in 1 .. Len(last_merge.poly) :
       /\ last_merge.poly[i] = <<1, 1, "grid">>
       /\ last_merge.kind[i] = "basic" /\ last_merge.score[i] = 3
-----------------------------------------------------------------------------
(* where isolines end *)

\* the cells that have the edge of the crossing point p as one of their edges
cells_of_edge(p) ==
  {rc \in cell_rows \X cell_cols :
     IF p[3] \in {"hintersect_lo", "hintersect_hi"}
     THEN rc[2] = p[2] /\ rc[1] \in {p[1] - 1, p[1]}
     ELSE rc[1] = p[1] /\ rc[2] \in {p[2] - 1, p[2]}}

\* whether the crossing point p lies on an edge of the border of the grid:
\* an edge that belongs to one cell only
on_grid_border(p) == Cardinality(cells_of_edge(p)) = 1

\* C34: after isoliner::calculate_contour every end of an open chain (a
\* point with exactly one of prev, next set) is a crossing on an edge of the
\* border of the grid or on an edge of a cell suppressed by a non-finite
\* value, so on a grid of finite values on the border only; and a chain with
\* no point on the border or on an edge of a suppressed cell is a closed
\* loop.
C34_EndsOnBorder ==
  (engine = "line" /\ pc = "collect") =>
    \A p \in DOMAIN polygon_grid :
      LET suppressed == \E rc \in cells_of_edge(p) : ~all_finite(rc[1], rc[2])
      IN /\ p[3] \in {"hintersect_lo", "vintersect_lo"}
         /\ degree(polygon_grid, p) \in {1, 2}
         /\ degree(polygon_grid, p) = 1 => (on_grid_border(p) \/ suppressed)
         /\ (degree(polygon_grid, p) = 1 /\ grid_finite) => on_grid_border(p)
         /\ (\A q \in chain_of(polygon_grid, p) :
               ~on_grid_border(q)
               /\ \A rc \in cells_of_edge(q) : all_finite(rc[1], rc[2])) =>
              \A q \in chain_of(polygon_grid, p) : degree(polygon_grid, q) = 2

\* a grid with a non-finite value has left a chain of more than one
\* segment that ends inside the grid at one end and on the border at the
\* other
C34_EndInside ==
  /\ engine = "line" /\ pc = "collect" /\ ~grid_finite
  /\ \E p \in DOMAIN polygon_grid :
       /\ degree(polygon_grid, p) = 1 /\ ~on_grid_border(p)
       /\ Cardinality(chain_of(polygon_grid, p)) >= 3
       /\ \E q \in chain_of(polygon_grid, p) :
            degree(polygon_grid, q) = 1 /\ on_grid_border(q)
-----------------------------------------------------------------------------
(* the case table of the isobander *)

\* size of the buffer tmp_poly
tmp_poly_capacity == 8

\* the grid corners of cell (r, c)
cell_corners(r, c) == {<<r, c>>, <<r, c + 1>>, <<r + 1, c + 1>>, <<r + 1, c>>}

\* C35: the case table of the isobander is well formed for all 81 indices:
\* every index but 0 and 80 gives at least one polygon; every polygon has at
\* least 3 and at most 8 points, so the buffer of 8 is not overrun, and its
\* points are pairwise different; over the polygons of a cell a corner
\* occurs exactly once if its code is 1 and never if its code is 0 or 2.
C35_CaseTableWellFormed ==
  (engine = "band" /\ pc \in {"calc", "collect"} /\ n_merged = 0
     /\ nrow = 2 /\ ncol = 2) =>
    /\ cells[0] \in 0 .. 80
    /\ cells[0] \notin {0, 80} => Len(todo) >= 1
    /\ cells[0] \in {0, 80} => Len(todo) = 0
    /\ \A k \in 1 .. Len(todo) :
         /\ 3 <= Len(todo[k]) /\ Len(todo[k]) <= tmp_poly_capacity
         /\ \A i \in 1 .. Len(todo[k]) : \A j \in 1 .. Len(todo[k]) :
              i # j => todo[k][i] # todo[k][j]
    /\ \A q \in cell_corners(0, 0) :
         uses(todo, <<q[1], q[2], "grid">>) = IF corner_code(q) = 1 THEN 1 ELSE 0

\* a cell with one corner in band, one below and two above is about to merge
\* one polygon of seven points
C35_SevenPoints ==
  /\ engine = "band" /\ pc = "calc" /\ n_merged = 0 /\ nrow = 2 /\ ncol = 2
  /\ Len(todo) = 1 /\ Len(todo[1]) = 7
  /\ Cardinality({q \in cell_corners(0, 0) : corner_code(q) = 1}) = 1
  /\ Cardinality({q \in cell_corners(0, 0) : corner_code(q) = 2}) = 2
====
